---- MODULE Spec2Model ----
(***************************************************************************)
(* pymdownx.superfences: the fence scanner (SuperFencesBlockPreprocessor), *)
(* the CodeStash and the indented-code recovery pass                       *)
(* (SuperFencesCodeBlockProcessor).                                        *)
(*                                                                         *)
(* Text is a sequence of characters, a character a one-character string    *)
(* ("\t" a tab, "\n" a newline, "\r" a carriage return).  The host's       *)
(* placeholder STX + "wzxhzdk:<n>" + ETX is the four tokens                *)
(* <<"STX", "wzxhzdk:", "<n>", "ETX">>; the backquote character is the    *)
(* token BQ.  None is NoneText for a text field and "None" for a callback  *)
(* field; an unbound fence (None) is the empty sequence, which no opener   *)
(* can bind (a fence has 3+ markers).                                      *)
(***************************************************************************)
EXTENDS Integers, Sequences, FiniteSets, TLC

\* ------------------------------------------------------------------ bounds
MaxLines == 4       \* lines scanned in one exploration (all passes together)
MaxPasses == 2      \* document passes of the multi-pass profile
MaxRecover == 2     \* calls of revert_greedy_fences
MaxIndent == 2      \* largest indentation of a placeholder line handed to recovery
MaxRegOps == 3      \* registry operations of the registry profile
MaxShortLines == 2  \* lines scanned in the custom, quotetab and deep profiles
MaxKeys == 2
MaxLineCount == 2
MaxHlNumber == 4        \* keys of the inputs of a direct validator call

\* --------------------------------------------------------------- constants
TabLen == 4
PREFIX_CHARS == {">", " ", "\t"}
NoneText == <<"None">>
WordChars == {"x", "t", "i", "l", "e"}
LangChars == WordChars \cup {"#", ".", "+", "-"}
BQ == "BQ"
FenceChars == {BQ, "~"}
Digits == <<"0", "1", "2", "3", "4", "5", "6", "7", "8", "9">>

\* ------------------------------------------------------------ text helpers
RECURSIVE Rep(_, _)
Rep(c, n) == IF n <= 0 THEN <<>> ELSE <<c>> \o Rep(c, n - 1)

Drop(s, n) == IF n >= Len(s) THEN <<>> ELSE SubSeq(s, n + 1, Len(s))

RECURSIVE RunLen(_, _, _)
RunLen(s, i, set) ==
    IF i > Len(s) \/ s[i] \notin set THEN 0 ELSE 1 + RunLen(s, i + 1, set)

RECURSIVE CountChar(_, _)
CountChar(s, c) ==
    IF s = <<>> THEN 0
    ELSE (IF Head(s) = c THEN 1 ELSE 0) + CountChar(Tail(s), c)

RECURSIVE Join(_, _)
Join(ls, sep) ==
    IF ls = <<>> THEN <<>>
    ELSE IF Len(ls) = 1 THEN ls[1]
    ELSE ls[1] \o <<sep>> \o Join(Tail(ls), sep)

RECURSIVE SplitFrom(_, _, _, _)
SplitFrom(s, i, cur, sep) ==
    IF i > Len(s) THEN <<cur>>
    ELSE IF s[i] = sep THEN <<cur>> \o SplitFrom(s, i + 1, <<>>, sep)
    ELSE SplitFrom(s, i + 1, Append(cur, s[i]), sep)

Split(s, sep) == SplitFrom(s, 1, <<>>, sep)

RECURSIVE RStrip(_, _)
RStrip(s, set) ==
    IF s /= <<>> /\ s[Len(s)] \in set THEN RStrip(SubSeq(s, 1, Len(s) - 1), set) ELSE s

RECURSIVE LStrip(_, _)
LStrip(s, set) == IF s /= <<>> /\ Head(s) \in set THEN LStrip(Tail(s), set) ELSE s

\* str.strip(): every whitespace character of the alphabet
Strip(s) == LStrip(RStrip(s, {" ", "\t", "\n", "\r"}), {" ", "\t", "\n", "\r"})

\* Python slice text[index:], negative index counted from the end
SliceFrom(s, index) ==
    IF index >= 0 THEN Drop(s, index)
    ELSE IF -index >= Len(s) THEN s
    ELSE SubSeq(s, Len(s) + index + 1, Len(s))

\* str.expandtabs(tab_len): the column restarts after a line break
RECURSIVE ExpandFrom(_, _, _)
ExpandFrom(text, i, col) ==
    IF i > Len(text) THEN <<>>
    ELSE IF text[i] = "\t"
         THEN LET n == TabLen - (col % TabLen)
              IN  Rep(" ", n) \o ExpandFrom(text, i + 1, col + n)
    ELSE IF text[i] \in {"\n", "\r"}
         THEN <<text[i]>> \o ExpandFrom(text, i + 1, 0)
    ELSE <<text[i]>> \o ExpandFrom(text, i + 1, col + 1)

normalize_ws(text) == ExpandFrom(text, 1, 0)

\* ----------------------------------------------------------- dictionaries
\* a dict is a function from its keys; {} is the function of empty domain
EmptyDict == <<>>

DictPut(d, k, v) == [x \in (DOMAIN d) \cup {k} |-> IF x = k THEN v ELSE d[x]]

DictDel(d, k) == [x \in (DOMAIN d) \ {k} |-> d[x]]

\* ------------------------------------------------------------ the grammar
\* RE_OPTIONS.finditer over the option text: the keys in order, a bare key
\* having no value group
RECURSIVE OptionKeys(_)
OptionKeys(s) ==
    LET s1 == LStrip(s, {" ", "\t"})
    IN  IF s1 = <<>> THEN [ok |-> TRUE, keys |-> <<>>]
        ELSE IF s1[1] \in WordChars /\ s1 /= s
        THEN LET n == RunLen(s1, 1, WordChars)
                 r == OptionKeys(Drop(s1, n))
             IN  [ok |-> r.ok, keys |-> <<SubSeq(s1, 1, n)>> \o r.keys]
        ELSE [ok |-> FALSE, keys |-> <<>>]

\* the index of the first c in s at or after i, 0 when there is none
RECURSIVE FindChar(_, _, _)
FindChar(s, i, c) ==
    IF i > Len(s) THEN 0 ELSE IF s[i] = c THEN i ELSE FindChar(s, i + 1, c)

\* the bracketed alternative of RE_NESTED_FENCE_START on the text a2 that
\* begins with a brace: the group up to the first closing brace, then spaces
\* or tabs to the end
MatchBraces(a2) ==
    LET j == FindChar(a2, 2, "}")
    IN  IF j = 0 \/ \E i \in (j + 1)..Len(a2) : a2[i] \notin {" ", "\t"}
        THEN [ok |-> FALSE, attrs |-> <<>>]
        ELSE [ok |-> TRUE, attrs |-> SubSeq(a2, 2, j - 1)]

\* RE_NESTED_FENCE_START.match(line, pos): the fence run, the text of the
\* bracketed group (empty when it is empty or did not take part), the
\* language token (likewise), the option keys and group(0).  Lines of the
\* alphabet have no quote, so quoted option values never take part; the
\* second alternative cannot start at a brace.
MatchFenceStart(line, pos) ==
    LET rest == Drop(line, pos)
        c    == IF rest = <<>> THEN "" ELSE rest[1]
        n    == IF c \in FenceChars THEN RunLen(rest, 1, {c}) ELSE 0
        a2   == LStrip(Drop(rest, n), {" ", "\t"})
        a3   == IF a2 /= <<>> /\ a2[1] = "." THEN Tail(a2) ELSE a2
        ll   == RunLen(a3, 1, LangChars)
        opts == OptionKeys(Drop(a3, ll))
    IN  IF n < 3 THEN [ok |-> FALSE, fence |-> <<>>, attrs |-> <<>>, lang |-> <<>>,
                       keys |-> <<>>, group0 |-> <<>>]
        ELSE IF a2 = <<>>
        THEN [ok |-> TRUE, fence |-> SubSeq(rest, 1, n), attrs |-> <<>>, lang |-> <<>>,
              keys |-> <<>>, group0 |-> rest]
        ELSE IF a2[1] = "{"
        THEN [ok |-> MatchBraces(a2).ok, fence |-> SubSeq(rest, 1, n),
              attrs |-> MatchBraces(a2).attrs, lang |-> <<>>, keys |-> <<>>, group0 |-> rest]
        ELSE [ok |-> opts.ok, fence |-> SubSeq(rest, 1, n), attrs |-> <<>>,
              lang |-> SubSeq(a3, 1, ll), keys |-> opts.keys, group0 |-> rest]

\* the length of the run of characters outside set that starts at s[i]
RECURSIVE RunLenNot(_, _, _)
RunLenNot(s, i, set) ==
    IF i > Len(s) \/ s[i] \in set THEN 0 ELSE 1 + RunLenNot(s, i + 1, set)

\* attr_list: a word .name is a class, #name an id, any other word a key
\* with itself as value
HandleWord(t) ==
    IF t[1] = "." THEN << <<".">>, Tail(t) >>
    ELSE IF t[1] = "#" THEN << <<"i", "d">>, Tail(t) >>
    ELSE <<t, t>>

\* get_attrs of the host's attr_list extension on text without quotes: the
\* scanner takes key=value, else a word, skips single spaces and stops where
\* none of them matches
RECURSIVE ScanAttrs(_, _)
ScanAttrs(s, i) ==
    IF i > Len(s) THEN <<>>
    ELSE IF s[i] = " " THEN ScanAttrs(s, i + 1)
    ELSE IF s[i] = "=" THEN <<>>
    ELSE LET n == RunLenNot(s, i, {" ", "="})
             v == IF i + n <= Len(s) /\ s[i + n] = "="
                  THEN RunLenNot(s, i + n + 1, {" ", "="}) ELSE 0
         IN  IF v > 0
             THEN << <<SubSeq(s, i, i + n - 1), SubSeq(s, i + n + 1, i + n + v)>> >>
                  \o ScanAttrs(s, i + n + v + 1)
             ELSE <<HandleWord(SubSeq(s, i, i + n - 1))>> \o ScanAttrs(s, i + n)

\* str.replace('\t', ' ' * tab_len)
RECURSIVE TabsToSpaces(_)
TabsToSpaces(s) ==
    IF s = <<>> THEN <<>>
    ELSE (IF Head(s) = "\t" THEN Rep(" ", TabLen) ELSE <<Head(s)>>) \o TabsToSpaces(Tail(s))

get_attrs(s) == ScanAttrs(s, 1)

\* variant: a longer run of the marker character is accepted as well
FenceEndMatchLonger(fence_end, content) ==
    LET n == RunLen(content, 1, {fence_end[1]})
    IN  /\ n >= Len(fence_end)
        /\ \A i \in (n + 1)..Len(content) : content[i] \in {" ", "\t"}

\* variant: any run of marker characters is accepted
FenceEndMatchAnyMarker(fence_end, content) ==
    LET n == RunLen(content, 1, FenceChars)
    IN  /\ n >= 1
        /\ \A i \in (n + 1)..Len(content) : content[i] \in {" ", "\t"}

\* re.compile(NESTED_FENCE_END % fence).match(content): the fence text itself,
\* then spaces or tabs up to the end
FenceEndMatch(fence_end, content) ==
    /\ Len(content) >= Len(fence_end)
    /\ SubSeq(content, 1, Len(fence_end)) = fence_end
    /\ \A i \in (Len(fence_end) + 1)..Len(content) : content[i] \in {" ", "\t"}

\* ------------------------------------------------------------- validators
KeyTitle == <<"t", "i", "t", "l", "e">>
KeyHlLines == <<"h", "l", "_", "l", "i", "n", "e", "s">>
KeyLinenums == <<"l", "i", "n", "e", "n", "u", "m", "s">>
DigitSet == {Digits[d] : d \in 1..Len(Digits)}

IsNumber(s) == s /= <<>> /\ \A i \in 1..Len(s) : s[i] \in DigitSet

IsHlEntry(s) ==
    LET p == Split(s, "-")
    IN  \/ Len(p) = 1 /\ IsNumber(p[1])
        \/ Len(p) = 2 /\ IsNumber(p[1]) /\ IsNumber(p[2])

\* RE_HL_LINES.match(v): numbers or ranges separated by spaces or tabs
MatchHlLines(v) ==
    LET t == Split([i \in 1..Len(v) |-> IF v[i] = "\t" THEN " " ELSE v[i]], " ")
    IN  /\ v /= <<>>
        /\ t[1] /= <<>> /\ t[Len(t)] /= <<>>
        /\ \A i \in 1..Len(t) : t[i] = <<>> \/ IsHlEntry(t[i])

\* RE_LINENUMS.match(v): a leading number
MatchLinenums(v) == v /= <<>> /\ v[1] \in DigitSet

KeyData == <<"d", "a", "t", "a", "-">>

\* str.startswith
StartsWith(s, prefix) == Len(s) >= Len(prefix) /\ SubSeq(s, 1, Len(prefix)) = prefix

\* variant: a recognized key is copied to the options and still falls through
\* to the attributes
RECURSIVE highlight_validator_both(_, _, _, _)
highlight_validator_both(keys, values, use_pygments, acc) ==
    IF keys = <<>> THEN acc
    ELSE LET k == Head(keys)
             v == values[k]
             matched == /\ use_pygments
                        /\ ~StartsWith(k, KeyData)
                        /\ \/ k = KeyTitle
                           \/ (k = KeyHlLines /\ MatchHlLines(v))
                           \/ (k = KeyLinenums /\ MatchLinenums(v))
         IN  highlight_validator_both(Tail(keys), values, use_pygments,
                 IF matched
                 THEN [acc EXCEPT !.options = DictPut(acc.options, k, v),
                                  !.attrs = DictPut(acc.attrs, k, v)]
                 ELSE [acc EXCEPT !.attrs = DictPut(acc.attrs, k, v)])

\* highlight_validator: with Pygments a data- key is an attribute, hl_lines,
\* linenums and title are options when their value fits; every other key,
\* and every key without Pygments, is an attribute
RECURSIVE highlight_validator(_, _, _, _)
highlight_validator(keys, values, use_pygments, acc) ==
    IF keys = <<>> THEN acc
    ELSE LET k == Head(keys)
             v == values[k]
             matched == /\ use_pygments
                        /\ ~StartsWith(k, KeyData)
                        /\ \/ k = KeyTitle
                           \/ (k = KeyHlLines /\ MatchHlLines(v))
                           \/ (k = KeyLinenums /\ MatchLinenums(v))
         IN  highlight_validator(Tail(keys), values, use_pygments,
                 IF matched
                 THEN [acc EXCEPT !.options = DictPut(acc.options, k, v)]
                 ELSE [acc EXCEPT !.attrs = DictPut(acc.attrs, k, v)])

RECURSIVE default_validator(_, _, _)
default_validator(keys, values, acc) ==
    IF keys = <<>> THEN acc
    ELSE default_validator(Tail(keys), values,
             [acc EXCEPT !.attrs = DictPut(acc.attrs, Head(keys), values[Head(keys)])])

\* what a validator supplied by the user may do with its inputs: take every
\* key as an option, pass every key on as an attribute, return False, raise
\* an ordinary exception or raise SuperFencesException
ValidatorOutcomes == {"ok", "attrs", "false", "raise", "hard"}

\* the validator of a custom fence, its behaviour given by vout
custom_validator(values, vout, acc) ==
    CASE vout = "ok" -> [acc EXCEPT !.options = values]
      [] vout = "attrs" -> [acc EXCEPT !.attrs = values]
      [] vout = "false" -> [acc EXCEPT !.options = values, !.okay = FALSE]
      [] OTHER -> [acc EXCEPT !.raised = vout]

\* _validator: the wrapper dispatches to the validator of the kind; the
\* result is the dicts the validator filled, its return value and what it
\* raised ("no" when it returned)
Validator(name, keys, values, use_pygments, vout) ==
    LET acc == [options |-> EmptyDict, attrs |-> EmptyDict, okay |-> TRUE, raised |-> "no"]
    IN  IF name = "highlight_validator"
        THEN highlight_validator(keys, values, use_pygments, acc)
        ELSE IF name = "default_validator"
        THEN default_validator(keys, values, acc)
        ELSE custom_validator(values, vout, acc)

\* the record of a validator call: the position of the kind (0 for a direct
\* call), the validator, the language and the inputs it was called with and
\* its result r
Call(i, name, lang, values, r) ==
    [kind |-> i, validator |-> name, lang |-> lang, values |-> values, options |-> r.options,
     attrs |-> r.attrs, okay |-> r.okay, raised |-> r.raised]

\* _test(language, test_language)
Test(language, test_language) ==
    test_language = NoneText \/ test_language = <<"*">> \/ language = test_language

\* ------------------------------------------------------------ the registry
\* a kind: its name, the test_language bound to _test (None for the default
\* kind), and the names of the formatter and of the validator it wraps
Kind(name, test, formatter, validator) ==
    [name |-> name, test |-> test, formatter |-> formatter, validator |-> validator]

\* extend_super_fences: a kind named '*' is assigned to position 0 (IndexError
\* on an empty list), any other kind is appended
extend_super_fences(reg, name, formatter, validator) ==
    IF name = <<"*">>
    THEN IF reg = <<>> THEN [err |-> TRUE, reg |-> reg]
         ELSE [err |-> FALSE, reg |-> [reg EXCEPT ![1] = Kind(name, name, formatter, validator)]]
    ELSE [err |-> FALSE, reg |-> Append(reg, Kind(name, name, formatter, validator))]

\* the loop of extendMarkdown over custom_fences: an entry without name or
\* without class is skipped
RECURSIVE AddCustomFences(_, _)
AddCustomFences(reg, custom_fences) ==
    IF custom_fences = <<>> THEN reg
    ELSE IF Head(custom_fences).name /= NoneText /\ Head(custom_fences).class /= NoneText
    THEN AddCustomFences(extend_super_fences(reg, Head(custom_fences).name,
                                             Head(custom_fences).format,
                                             Head(custom_fences).validator).reg,
                         Tail(custom_fences))
    ELSE AddCustomFences(reg, Tail(custom_fences))

\* patch_fenced_rule: the default kind gets the highlight formatter
patch_fenced_rule(reg) ==
    IF reg[1].name = <<"superfences">> THEN [reg EXCEPT ![1].formatter = "highlight"] ELSE reg

\* extendMarkdown: the default kind is inserted at position 0, the custom
\* fences of the configuration are registered, the rule is patched
extendMarkdown(reg, custom_fences) ==
    patch_fenced_rule(
        AddCustomFences(<<Kind(<<"superfences">>, NoneText, "None", "highlight_validator")>> \o reg,
                        custom_fences))

\* ------------------------------------------------- whitespace and prefixes
\* parse_whitespace: the whole leading run of prefix characters
parse_whitespace(line) ==
    LET n  == RunLen(line, 1, PREFIX_CHARS)
        ws == normalize_ws(SubSeq(line, 1, n))
    IN  [ws |-> ws, ws_len |-> n, ws_virtual_len |-> Len(ws)]

\* parse_fence_line: prefix characters up to the virtual width of the opener
RECURSIVE ParseFenceFrom(_, _, _, _, _, _)
ParseFenceFrom(line, i, vlen, index, ws, width) ==
    IF i > Len(line) \/ vlen >= width \/ line[i] \notin PREFIX_CHARS
    THEN [ws |-> ws, content |-> Drop(line, i - 1)]
    ELSE IF line[i] = "\t"
         THEN LET tab_size == TabLen - (index % TabLen)
              IN  ParseFenceFrom(line, i + 1, vlen + tab_size, index + tab_size,
                                 ws \o Rep(" ", tab_size), width)
    ELSE ParseFenceFrom(line, i + 1, vlen + 1, index + 1, Append(ws, line[i]), width)

parse_fence_line(line, ws_virtual_len) == ParseFenceFrom(line, 1, 0, 0, <<>>, ws_virtual_len)

\* --------------------------------------------------------------- the state
VARIABLES
    superfences,    \* SuperFencesCodeExtension.superfences: the registry
    config,         \* the configuration the processors read
    stash,          \* CodeStash.stash: key -> (code, indent_level)
    html_counter,   \* md.htmlStash: number of the next placeholder
    fenced,         \* the fields of the SuperFencesBlockPreprocessor
    lines,          \* search_nested: the lines of the document read so far
    count,          \* search_nested: index of the next line
    start,          \* search_nested: index of the last opener
    phase,          \* "idle", "scan" (inside run) or "failed" (SuperFencesException)
    output,         \* the lines run returned
    rec,            \* the last call of revert_greedy_fences: argument and outcome
    event,          \* history: the branch the last step took
    pre,            \* history: [f, stash, hc] as they were before the last step
    captured,       \* history: the stack entries stored in this pass
    aborted,        \* history: <<start, line index>> of the fences aborted in this pass
    orig,           \* history: key -> the input lines of the block stored under it
    restores,       \* history: key -> number of times recovery spliced its original
    profile,        \* the input profile of this exploration
    scanned,        \* lines read in all passes
    passes,         \* passes started
    recovers,       \* recovery calls made
    setup,          \* history: registry operations made, extendMarkdown calls, IndexError
    vcall,          \* history: the validator calls of the last step, first to last
    fcall,          \* history: the formatter call of the last step, if it made one
    hl,             \* history: the call of parse_hl_lines made, if any
    rawp            \* a SuperFencesRawBlockPreprocessor run on the same lines:
                    \* [f, stash, hc, start, event, fcall, output]

vars == <<superfences, config, stash, html_counter, fenced, lines, count, start, phase,
          output, rec, event, pre, captured, aborted, orig, restores,
          profile, scanned, passes, recovers, setup, vcall, fcall, rawp, hl>>

\* variant: the fence marker survives the reset
clearKeepsFence(f) ==
    [f EXCEPT !.lang = NoneText, !.quote_level = 0, !.code = <<>>, !.empty_lines = 0,
              !.options = EmptyDict, !.classes = <<>>, !.id = <<>>, !.attrs = EmptyDict,
              !.formatter = "None"]

\* clear(): the canonical empty scan state (first, last, stack, line_count and
\* the configuration flags are not touched)
clear(f) ==
    [f EXCEPT !.ws = NoneText, !.ws_len = 0, !.ws_virtual_len = 0, !.fence = <<>>,
              !.lang = NoneText, !.quote_level = 0, !.code = <<>>, !.empty_lines = 0,
              !.fence_end = <<>>, !.options = EmptyDict, !.classes = <<>>, !.id = <<>>,
              !.attrs = EmptyDict, !.formatter = "None"]

NewPreprocessor ==
    clear([ws |-> NoneText, ws_len |-> 0, ws_virtual_len |-> 0, fence |-> <<>>,
           lang |-> NoneText, quote_level |-> 0, code |-> <<>>, empty_lines |-> 0,
           fence_end |-> <<>>, options |-> EmptyDict, classes |-> <<>>, id |-> <<>>,
           attrs |-> EmptyDict, formatter |-> "None",
           first |-> <<>>, last |-> <<>>, stack |-> <<>>, line_count |-> 0,
           disabled_indented |-> FALSE, raw |-> FALSE])

\* a SuperFencesRawBlockPreprocessor: the same fields, the overriding class
NewRawPreprocessor == [NewPreprocessor EXCEPT !.raw = TRUE]

\* md.htmlStash.store: the placeholder of number n
Placeholder(n) == <<"STX", "wzxhzdk:", Digits[n + 1], "ETX">>

\* placeholder[1:-1]
PlaceholderKey(p) == SubSeq(p, 2, Len(p) - 1)

\* CodeStash.store
StashStore(st, key, code, indent_level) ==
    DictPut(st, key, [code |-> code, indent_level |-> indent_level])

\* variant: the entry is left in place
StashRemoveKeeps(st, key) == st

\* CodeStash.remove
StashRemove(st, key) == DictDel(st, key)

\* variant: the entries are kept
clear_stash_keeps(st) == st

\* CodeStash.clear_stash
clear_stash(st) == EmptyDict

\* rebuild_block: line[ws_virtual_len:] of every captured line, joined
rebuild_block(code, ws_virtual_len) ==
    Join([i \in 1..Len(code) |-> SliceFrom(code[i], ws_virtual_len)], "\n")

\* A scan step works on the world w = [f, stash, hc] and names its branch.
\* _store: the stack entry, and the original text unless recovery is disabled
Store(w, source, s, e) ==
    LET f  == w.f
        ph == Placeholder(w.hc)
    IN  [w EXCEPT !.f.stack = Append(f.stack, [fenced |-> f.ws \o ph, start |-> s, end |-> e]),
                  !.hc = w.hc + 1,
                  !.stash = IF f.disabled_indented THEN w.stash
                            ELSE StashStore(w.stash, PlaceholderKey(ph),
                                     f.first \o <<"\n">> \o normalize_ws(source) \o f.last,
                                     f.ws_virtual_len)]

\* variant: the source is tab-expanded before it is stored
RawStoreExpands(w, source, s, e) ==
    LET f  == w.f
        ph == Placeholder(w.hc)
    IN  [w EXCEPT !.f.stack = Append(f.stack, [fenced |-> f.ws \o ph, start |-> s, end |-> e]),
                  !.hc = w.hc + 1,
                  !.stash = StashStore(w.stash, PlaceholderKey(ph),
                                f.first \o <<"\n">> \o normalize_ws(source) \o f.last,
                                f.ws_virtual_len)]

\* SuperFencesRawBlockPreprocessor._store: an empty string goes to the HTML
\* stash, the source goes to the Stash as it is, whatever the configuration
RawStore(w, source, s, e) ==
    LET f  == w.f
        ph == Placeholder(w.hc)
    IN  [w EXCEPT !.f.stack = Append(f.stack, [fenced |-> f.ws \o ph, start |-> s, end |-> e]),
                  !.hc = w.hc + 1,
                  !.stash = StashStore(w.stash, PlaceholderKey(ph),
                                f.first \o <<"\n">> \o source \o f.last,
                                f.ws_virtual_len)]

\* SuperFencesRawBlockPreprocessor.process_nested_block: no formatter call
raw_process_nested_block(w, ws, content, s, e) ==
    LET f1 == [w.f EXCEPT !.last = ws \o normalize_ws(content)]
        w3 == RawStore([f |-> f1, stash |-> w.stash, hc |-> w.hc],
                       Join(f1.code, "\n") \o <<"\n">>, s, e)
    IN  [f |-> clear(w3.f), stash |-> w3.stash, hc |-> w3.hc, event |-> "close",
         fcall |-> <<>>]

\* the keyword arguments of the formatter call in process_nested_block (md
\* and attrs left out) and the line count set before it
FormatterCall(f) ==
    [src |-> rebuild_block(f.code, f.ws_virtual_len), language |-> f.lang,
     options |-> f.options, classes |-> f.classes, id_value |-> f.id,
     line_count |-> f.line_count]

\* process_nested_block, with the outcome of the formatter call: "ok" (markup
\* returned), "raise" (an ordinary exception) or "hard" (SuperFencesException);
\* the call is dispatched on the class of the preprocessor
process_nested_block(w, ws, content, s, e, outcome) ==
    LET f1 == [w.f EXCEPT !.last = ws \o normalize_ws(content)]
    IN  IF w.f.raw THEN raw_process_nested_block(w, ws, content, s, e)
        ELSE IF f1.formatter = "None"
        THEN [f |-> clear(f1), stash |-> w.stash, hc |-> w.hc, event |-> "unformatted",
              fcall |-> <<>>]
        ELSE LET f2 == [f1 EXCEPT !.line_count = e - s - 2]
                 w2 == [f |-> f2, stash |-> w.stash, hc |-> w.hc]
             IN  IF outcome = "hard"
                 THEN [f |-> f2, stash |-> w.stash, hc |-> w.hc, event |-> "hard",
                       fcall |-> <<FormatterCall(f2)>>]
                 ELSE IF outcome = "raise"
                 THEN [f |-> clear(f2), stash |-> w.stash, hc |-> w.hc, event |-> "fmt_raise",
                       fcall |-> <<FormatterCall(f2)>>]
                 ELSE LET w3 == Store(w2, normalize_ws(Join(f2.code, "\n")) \o <<"\n">>, s, e)
                      IN  [f |-> clear(w3.f), stash |-> w3.stash, hc |-> w3.hc,
                           event |-> "close", fcall |-> <<FormatterCall(f2)>>]

Branch(w, f, ev) == [f |-> f, stash |-> w.stash, hc |-> w.hc, event |-> ev, fcall |-> <<>>]

\* eval_fence: a line of a fence opened outside any blockquote
eval_fence(w, ws, content, s, e, outcome) ==
    LET f == w.f
    IN  IF Strip(ws \o content) = <<>>
        THEN Branch(w, [f EXCEPT !.empty_lines = f.empty_lines + 1,
                                 !.code = Append(f.code, ws \o content)], "blank")
        ELSE IF Len(ws) /= f.ws_virtual_len /\ content /= <<>>
        THEN Branch(w, clear(f), "abort_indent")
        ELSE IF FenceEndMatch(f.fence_end, content) /\ content[1] \notin {" ", "\t"}
        THEN process_nested_block(w, ws, content, s, e, outcome)
        ELSE Branch(w, [f EXCEPT !.empty_lines = 0,
                                 !.code = Append(f.code, ws \o content)], "content")

\* variant: one level of nesting above the opener is let through
QuoteExceedsByTwo(quote_level, f) == quote_level > f.quote_level + 1

\* eval_quoted, first test: the quote level exceeds the starting quote level
QuoteExceeds(quote_level, f) == quote_level > f.quote_level

\* variant: the blank line before the line is not taken into account
LazyBreakIgnored(quote_level, f) == FALSE

\* eval_quoted, fourth test: the quote levels do not match and an empty line
\* has signified the end of the block
LazyBreak(quote_level, f) == f.empty_lines > 0 /\ quote_level < f.quote_level

\* eval_quoted: a line of a fence opened inside a blockquote
eval_quoted(w, ws, content, quote_level, s, e, outcome) ==
    LET f == w.f
    IN  IF QuoteExceeds(quote_level, f)
        THEN Branch(w, clear(f), "abort_quote")
        ELSE IF content = <<>>
        THEN Branch(w, [f EXCEPT !.code = Append(f.code, ws \o content),
                                 !.empty_lines = f.empty_lines + 1], "blank")
        ELSE IF Len(ws) < f.ws_len
        THEN Branch(w, clear(f), "abort_indent")
        ELSE IF LazyBreak(quote_level, f)
        THEN Branch(w, clear(f), "abort_lazy")
        ELSE IF FenceEndMatch(f.fence_end, content)
        THEN process_nested_block(w, ws, content, s, e, outcome)
        ELSE Branch(w, [f EXCEPT !.empty_lines = 0,
                                 !.code = Append(f.code, ws \o content)], "content")

\* the loop over reversed(self.extension.superfences) of parse_options.  inp
\* is what every validator is called with ([lang, keys, values,
\* use_pygments, vout]); the result is the last okay computed, whether
\* SuperFencesException left the loop, the formatter and options of the kind
\* that won, and the validator calls made.
RECURSIVE TryKinds(_, _, _, _, _)

\* variant: an ordinary exception of the validator counts as success
TriedKindRaiseWins(reg, i, inp, okay, calls, r) ==
    IF r.raised = "hard"
    THEN [okay |-> okay, hard |-> TRUE, formatter |-> "None", options |-> EmptyDict,
          calls |-> Append(calls, Call(i, reg[i].validator, inp.lang, inp.values, r))]
    ELSE IF (r.raised = "raise" \/ r.okay) /\ DOMAIN r.attrs = {}
    THEN [okay |-> TRUE, hard |-> FALSE, formatter |-> reg[i].formatter,
          options |-> r.options,
          calls |-> Append(calls, Call(i, reg[i].validator, inp.lang, inp.values, r))]
    ELSE TryKinds(reg, i - 1, inp, FALSE,
                  Append(calls, Call(i, reg[i].validator, inp.lang, inp.values, r)))

\* variant: the kind that succeeds binds the formatter of the wildcard
TriedKindWildcard(reg, i, inp, okay, calls, r) ==
    IF r.raised = "hard"
    THEN [okay |-> okay, hard |-> TRUE, formatter |-> "None", options |-> EmptyDict,
          calls |-> Append(calls, Call(i, reg[i].validator, inp.lang, inp.values, r))]
    ELSE IF (IF r.raised = "raise" THEN okay ELSE r.okay) /\ DOMAIN r.attrs = {}
    THEN [okay |-> TRUE, hard |-> FALSE, formatter |-> reg[1].formatter,
          options |-> r.options,
          calls |-> Append(calls, Call(i, reg[i].validator, inp.lang, inp.values, r))]
    ELSE TryKinds(reg, i - 1, inp, FALSE,
                  Append(calls, Call(i, reg[i].validator, inp.lang, inp.values, r)))

\* the body of the loop for a kind whose test accepted the language, r the
\* result of its validator
TriedKind(reg, i, inp, okay, calls, r) ==
    IF r.raised = "hard"
    THEN [okay |-> okay, hard |-> TRUE, formatter |-> "None", options |-> EmptyDict,
          calls |-> Append(calls, Call(i, reg[i].validator, inp.lang, inp.values, r))]
    ELSE IF (IF r.raised = "raise" THEN okay ELSE r.okay) /\ DOMAIN r.attrs = {}
    THEN [okay |-> TRUE, hard |-> FALSE, formatter |-> reg[i].formatter,
          options |-> r.options,
          calls |-> Append(calls, Call(i, reg[i].validator, inp.lang, inp.values, r))]
    ELSE TryKinds(reg, i - 1, inp, FALSE,
                  Append(calls, Call(i, reg[i].validator, inp.lang, inp.values, r)))

TryKinds(reg, i, inp, okay, calls) ==
    IF i = 0
    THEN [okay |-> okay, hard |-> FALSE, formatter |-> "None", options |-> EmptyDict,
          calls |-> calls]
    ELSE IF Test(inp.lang, reg[i].test)
    THEN TriedKind(reg, i, inp, okay, calls,
                   Validator(reg[i].validator, inp.keys, inp.values, inp.use_pygments,
                             inp.vout))
    ELSE TryKinds(reg, i - 1, inp, okay, calls)

\* the distinct keys in the order of their first occurrence (a dict keeps it)
RECURSIVE DistinctKeys(_, _)
DistinctKeys(keys, seen) ==
    IF keys = <<>> THEN <<>>
    ELSE IF Head(keys) \in seen THEN DistinctKeys(Tail(keys), seen)
    ELSE <<Head(keys)>> \o DistinctKeys(Tail(keys), seen \cup {Head(keys)})

\* the end of parse_options, r the result of the loop
ParsedOptions(f1, r) ==
    [okay |-> r.okay, hard |-> r.hard, calls |-> r.calls,
     f |-> IF r.okay /\ ~r.hard
           THEN [f1 EXCEPT !.formatter = r.formatter, !.options = r.options]
           ELSE f1]

\* parse_options: a bare key has its own name as value
parse_options(f, m, reg, cfg, vout) ==
    ParsedOptions(
        [f EXCEPT !.lang = IF m.lang /= <<>> THEN m.lang ELSE f.lang,
                  !.options = EmptyDict, !.attrs = EmptyDict, !.formatter = "None"],
        TryKinds(reg, Len(reg),
                 [lang |-> IF m.lang /= <<>> THEN m.lang ELSE f.lang,
                  keys |-> DistinctKeys(m.keys, {}),
                  values |-> [k \in {m.keys[i] : i \in 1..Len(m.keys)} |-> k],
                  use_pygments |-> cfg.use_pygments, vout |-> vout],
                 FALSE, <<>>))

\* the loop of handle_attrs over the attributes: id, classes and the values
\* left for the validator (keys in the order of their first occurrence)
RECURSIVE AttrLoop(_, _)
AttrLoop(attributes, acc) ==
    IF attributes = <<>> THEN acc
    ELSE LET k == Head(attributes)[1]
             v == Head(attributes)[2]
         IN  AttrLoop(Tail(attributes),
                 IF k = <<"i", "d">> THEN [acc EXCEPT !.id = v]
                 ELSE IF k = <<".">> THEN [acc EXCEPT !.classes = Append(acc.classes, v)]
                 ELSE [acc EXCEPT !.values = DictPut(acc.values, k, v),
                                  !.keys = IF k \in DOMAIN acc.values THEN acc.keys
                                           ELSE Append(acc.keys, k)])

\* the loop over reversed(self.extension.superfences) of handle_attrs: the
\* attributes a validator returns do not make it fail
RECURSIVE TryKindsAttrs(_, _, _, _, _)

TriedKindAttrs(reg, i, inp, okay, calls, r) ==
    IF r.raised = "hard"
    THEN [okay |-> okay, hard |-> TRUE, formatter |-> "None", options |-> EmptyDict,
          attrs |-> EmptyDict,
          calls |-> Append(calls, Call(i, reg[i].validator, inp.lang, inp.values, r))]
    ELSE IF (IF r.raised = "raise" THEN okay ELSE r.okay)
    THEN [okay |-> TRUE, hard |-> FALSE, formatter |-> reg[i].formatter,
          options |-> r.options,
          attrs |-> IF inp.attr_list THEN r.attrs ELSE EmptyDict,
          calls |-> Append(calls, Call(i, reg[i].validator, inp.lang, inp.values, r))]
    ELSE TryKindsAttrs(reg, i - 1, inp, FALSE,
                       Append(calls, Call(i, reg[i].validator, inp.lang, inp.values, r)))

TryKindsAttrs(reg, i, inp, okay, calls) ==
    IF i = 0
    THEN [okay |-> okay, hard |-> FALSE, formatter |-> "None", options |-> EmptyDict,
          attrs |-> EmptyDict, calls |-> calls]
    ELSE IF Test(inp.lang, reg[i].test)
    THEN TriedKindAttrs(reg, i, inp, okay, calls,
                        Validator(reg[i].validator, inp.keys, inp.values, inp.use_pygments,
                                  inp.vout))
    ELSE TryKindsAttrs(reg, i - 1, inp, okay, calls)

\* variant: the language is the last class, the classes before it stay
ClassSplitLast(classes) ==
    IF classes = <<>> THEN [lang |-> <<>>, classes |-> <<>>]
    ELSE [lang |-> classes[Len(classes)], classes |-> SubSeq(classes, 1, Len(classes) - 1)]

\* self.lang = self.classes.pop(0) if self.classes else ''
ClassSplit(classes) ==
    IF classes = <<>> THEN [lang |-> <<>>, classes |-> <<>>]
    ELSE [lang |-> Head(classes), classes |-> Tail(classes)]

\* the end of handle_attrs, f1 the state before the loop and r its result
HandledAttrs(f1, r) ==
    [okay |-> r.okay, hard |-> r.hard, calls |-> r.calls,
     f |-> IF r.okay /\ ~r.hard
           THEN [f1 EXCEPT !.formatter = r.formatter, !.options = r.options,
                           !.attrs = r.attrs]
           ELSE f1]

\* handle_attrs after the loop over the attributes, a its result
HandleParsed(f, a, reg, cfg, vout) ==
    HandledAttrs(
        [f EXCEPT !.options = EmptyDict, !.attrs = EmptyDict, !.formatter = "None",
                  !.id = a.id, !.classes = ClassSplit(a.classes).classes,
                  !.lang = ClassSplit(a.classes).lang],
        TryKindsAttrs(reg, Len(reg),
                      [lang |-> ClassSplit(a.classes).lang, keys |-> a.keys,
                       values |-> a.values, use_pygments |-> cfg.use_pygments,
                       attr_list |-> cfg.attr_list, vout |-> vout],
                      FALSE, <<>>))

\* handle_attrs: the bracketed form
handle_attrs(f, m, reg, cfg, vout) ==
    HandleParsed(f,
                 AttrLoop(get_attrs(TabsToSpaces(m.attrs)),
                          [id |-> f.id, classes |-> f.classes, values |-> EmptyDict,
                           keys |-> <<>>]),
                 reg, cfg, vout)

\* variant: a rejected opener leaves the fields its parsing has set
search_opener_keeps(w, p, m, o, cnt, s) ==
    IF o.hard THEN Branch(w, o.f, "vhard") @@ [start |-> s, calls |-> o.calls]
    ELSE IF o.okay
    THEN Branch(w, [o.f EXCEPT !.first = p.ws \o normalize_ws(m.group0),
                               !.ws = p.ws,
                               !.quote_level = CountChar(p.ws, ">"),
                               !.empty_lines = 0,
                               !.fence = m.fence,
                               !.fence_end = m.fence], "open")
         @@ [start |-> cnt, calls |-> o.calls]
    ELSE Branch(w, o.f, "reject") @@ [start |-> s, calls |-> o.calls]

\* variant: an opener that no kind validated opens a fence all the same
search_opener_lenient(w, p, m, o, cnt, s) ==
    IF o.hard THEN Branch(w, o.f, "vhard") @@ [start |-> s, calls |-> o.calls]
    ELSE Branch(w, [o.f EXCEPT !.first = p.ws \o normalize_ws(m.group0),
                               !.ws = p.ws,
                               !.quote_level = CountChar(p.ws, ">"),
                               !.empty_lines = 0,
                               !.fence = m.fence,
                               !.fence_end = m.fence], "open")
         @@ [start |-> cnt, calls |-> o.calls]

\* search_nested, the line of an unbound scanner that matched the grammar: o
\* is the result of handle_attrs or parse_options
search_opener(w, p, m, o, cnt, s) ==
    IF o.hard THEN Branch(w, o.f, "vhard") @@ [start |-> s, calls |-> o.calls]
    ELSE IF o.okay
    THEN Branch(w, [o.f EXCEPT !.first = p.ws \o normalize_ws(m.group0),
                               !.ws = p.ws,
                               !.quote_level = CountChar(p.ws, ">"),
                               !.empty_lines = 0,
                               !.fence = m.fence,
                               !.fence_end = m.fence], "open")
         @@ [start |-> cnt, calls |-> o.calls]
    ELSE Branch(w, clear(o.f), "reject") @@ [start |-> s, calls |-> o.calls]

\* variant: the line that ends a fence without closing it is tested against
\* the opener grammar at once
search_line_retest(w, raw, cnt, s, reg, cfg, outcome, vout) ==
    LET line == RStrip(raw, {"\r"})
        pf   == parse_fence_line(line, w.f.ws_virtual_len)
        quote_level == CountChar(pf.ws, ">")
        r    == IF w.f.fence = <<>> THEN Branch(w, w.f, "pass")
                ELSE IF w.f.quote_level /= 0
                THEN eval_quoted(w, pf.ws, pf.content, quote_level, s, cnt + 1, outcome)
                ELSE IF quote_level = 0
                THEN eval_fence(w, pf.ws, pf.content, s, cnt + 1, outcome)
                ELSE Branch(w, clear(w.f), "abort_unquoted")
        f    == IF w.f.fence = <<>> THEN w.f ELSE clear(w.f)
        p    == parse_whitespace(line)
        f1   == [f EXCEPT !.ws_len = p.ws_len, !.ws_virtual_len = p.ws_virtual_len]
        m    == MatchFenceStart(line, p.ws_len)
    IN  IF w.f.fence /= <<>>
           /\ r.event \notin {"abort_indent", "abort_quote", "abort_lazy", "abort_unquoted"}
        THEN r @@ [start |-> s, calls |-> <<>>]
        ELSE IF ~m.ok
        THEN Branch(w, f1, IF w.f.fence = <<>> THEN "pass" ELSE r.event)
             @@ [start |-> s, calls |-> <<>>]
        ELSE search_opener(w, p, m,
                           IF m.attrs /= <<>>
                           THEN handle_attrs(f1, m, reg, cfg, vout)
                           ELSE parse_options(f1, m, reg, cfg, vout),
                           cnt, s)

\* one iteration of the loop of search_nested over the line at index count
search_line(w, raw, cnt, s, reg, cfg, outcome, vout) ==
    LET line == RStrip(raw, {"\r"})
        f    == w.f
    IN  IF f.fence = <<>>
        THEN LET p  == parse_whitespace(line)
                 f1 == [f EXCEPT !.ws_len = p.ws_len, !.ws_virtual_len = p.ws_virtual_len]
                 m  == MatchFenceStart(line, p.ws_len)
             IN  IF ~m.ok THEN Branch(w, f1, "pass") @@ [start |-> s, calls |-> <<>>]
                 ELSE search_opener(w, p, m,
                                    IF m.attrs /= <<>>
                                    THEN handle_attrs(f1, m, reg, cfg, vout)
                                    ELSE parse_options(f1, m, reg, cfg, vout),
                                    cnt, s)
        ELSE LET pf == parse_fence_line(line, f.ws_virtual_len)
                 e  == cnt + 1
                 quote_level == CountChar(pf.ws, ">")
             IN  (IF f.quote_level /= 0
                  THEN eval_quoted(w, pf.ws, pf.content, quote_level, s, e, outcome)
                  ELSE IF quote_level = 0
                  THEN eval_fence(w, pf.ws, pf.content, s, e, outcome)
                  ELSE Branch(w, clear(f), "abort_unquoted"))
                 @@ [start |-> s, calls |-> <<>>]

\* variant: the blocks are spliced first to last
RECURSIVE reassembleForward(_, _)
reassembleForward(ls, stack) ==
    IF stack = <<>> THEN ls
    ELSE LET b == stack[1]
         IN  reassembleForward(SubSeq(ls, 1, b.start) \o <<b.fenced>> \o Drop(ls, b.end),
                               Tail(stack))

\* reassemble: pop the stack, splicing each block over its line range
RECURSIVE reassemble(_, _)
reassemble(ls, stack) ==
    IF stack = <<>> THEN ls
    ELSE LET b == stack[Len(stack)]
         IN  reassemble(SubSeq(ls, 1, b.start) \o <<b.fenced>> \o Drop(ls, b.end),
                        SubSeq(stack, 1, Len(stack) - 1))

\* fenced.replace(STX, SOH, 1)[:-1] + EOT
RawWrap(text) ==
    LET i == FindChar(text, 1, "STX")
        t == IF i > 0 THEN [text EXCEPT ![i] = "SOH"] ELSE text
    IN  SubSeq(t, 1, Len(t) - 1) \o <<"EOT">>

\* SuperFencesRawBlockPreprocessor.reassemble
RECURSIVE raw_reassemble(_, _)
raw_reassemble(ls, stack) ==
    IF stack = <<>> THEN ls
    ELSE LET b == stack[Len(stack)]
         IN  raw_reassemble(SubSeq(ls, 1, b.start) \o <<RawWrap(b.fenced)>> \o Drop(ls, b.end),
                            SubSeq(stack, 1, Len(stack) - 1))

\* ------------------------------------------------------------ the recovery
\* FENCED_BLOCK_RE.match(line): a prefix of quote markers and spaces, then
\* exactly one placeholder
MatchFencedBlock(line) ==
    LET n    == RunLen(line, 1, {">", " "})
        rest == Drop(line, n)
    IN  IF /\ Len(rest) = 4
           /\ rest[1] = "STX" /\ rest[2] = "wzxhzdk:" /\ rest[3] \in DigitSet
           /\ rest[4] = "ETX"
        THEN [ok |-> TRUE, key |-> SubSeq(rest, 2, 3), indent_level |-> n]
        ELSE [ok |-> FALSE, key |-> <<>>, indent_level |-> 0]

\* SuperFencesCodeBlockProcessor.reindent
reindent(text, pos, level) ==
    LET ls == Split(text, "\n")
    IN  Join([i \in 1..Len(ls) |-> SliceFrom(ls[i], pos - level)], "\n")

\* the loop of revert_greedy_fences.  stash.get(key) is None for a missing
\* key, and unpacking None into (original, pos) raises TypeError: the call
\* ends there, the removals already made stay.
RECURSIVE RevertFrom(_, _, _, _, _)
RevertFrom(ls, i, st, new_block, hits) ==
    IF i > Len(ls)
    THEN [err |-> FALSE, out |-> Join(new_block, "\n"), stash |-> st, hits |-> hits]
    ELSE LET m == MatchFencedBlock(ls[i])
         IN  IF ~m.ok
             THEN RevertFrom(ls, i + 1, st, Append(new_block, ls[i]), hits)
             ELSE IF m.key \notin DOMAIN st
             THEN [err |-> TRUE, out |-> <<>>, stash |-> st, hits |-> hits]
             ELSE RevertFrom(ls, i + 1, StashRemove(st, m.key),
                      Append(new_block,
                             reindent(st[m.key].code, st[m.key].indent_level, m.indent_level)),
                      Append(hits, m.key))

revert_greedy_fences(block, st) == RevertFrom(Split(block, "\n"), 1, st, <<>>, <<>>)

\* ------------------------------------------------------ highlighted lines
\* int() of a run of decimal digits
DigitValue(c) == CHOOSE d \in 0..9 : Digits[d + 1] = c
RECURSIVE IntFrom(_, _, _)
IntFrom(text, i, acc) ==
    IF i > Len(text) THEN acc ELSE IntFrom(text, i + 1, acc * 10 + DigitValue(text[i]))
ParseInt(text) == IntFrom(text, 1, 0)

\* str.split(): the words between runs of whitespace
RECURSIVE SplitWords(_, _, _, _)
SplitWords(text, i, cur, acc) ==
    IF i > Len(text) THEN (IF cur = <<>> THEN acc ELSE Append(acc, cur))
    ELSE IF text[i] \in {" ", "\t", "\n", "\r"}
    THEN SplitWords(text, i + 1, <<>>, IF cur = <<>> THEN acc ELSE Append(acc, cur))
    ELSE SplitWords(text, i + 1, Append(cur, text[i]), acc)

\* list(range(a, b + 1))
Range(a, b) == [i \in 1..(b - a + 1) |-> a + i - 1]

\* normalize_hl_line: numbers out of range end one step out of range
normalize_hl_line(number, line_count) ==
    LET n == ParseInt(number)
    IN  IF n < 1 THEN 0 ELSE IF n > line_count THEN line_count + 1 ELSE n

\* parse_hl_lines, the body of the loop: the lines one entry adds
HlEntry(entry, line_count) ==
    LET parts      == Split(entry, "-")
        line_range == [i \in 1..Len(parts) |-> normalize_hl_line(parts[i], line_count)]
    IN  IF Len(line_range) > 1
        THEN (IF line_range[1] <= line_range[2]
              THEN Range(line_range[1], line_range[2]) ELSE <<>>)
        ELSE IF 1 <= line_range[1] /\ line_range[1] <= line_count
        THEN line_range ELSE <<>>

RECURSIVE HlEntries(_, _, _)
HlEntries(entries, line_count, acc) ==
    IF entries = <<>> THEN acc
    ELSE HlEntries(Tail(entries), line_count, acc \o HlEntry(Head(entries), line_count))

\* parse_hl_lines: None and the empty string give no lines
parse_hl_lines(hl_lines, line_count) ==
    IF hl_lines = NoneText \/ hl_lines = <<>> THEN <<>>
    ELSE HlEntries(SplitWords(hl_lines, 1, <<>>, <<>>), line_count, <<>>)

\* ------------------------------------------------------------- the inputs
\* The documents of an exploration are built from the lines of one profile.
PlainLines ==
    { <<BQ, BQ, BQ>>, <<BQ, BQ, BQ, BQ>>, <<"~", "~", "~">>, <<BQ, BQ>>,
      <<BQ, BQ, BQ, " ">>, <<" ", " ", BQ, BQ, BQ>>, <<"x">>, <<>> }

QuotedLines ==
    { <<">", " ", BQ, BQ, BQ>>, <<">", " ", " ", " ", BQ, BQ, BQ>>,
      <<">", " ", ">", " ", "x">>, <<">", " ", "x">>, <<"x">>, <<>>, <<">">>,
      <<" ", " ", BQ, BQ, BQ>> }

TabbedLines ==
    { <<"\t", BQ, BQ, BQ>>, <<" ", " ", " ", " ", BQ, BQ, BQ>>, <<"\t", "x">>,
      <<" ", " ", "x">>, <<BQ, BQ, BQ, "\r">>, <<"x", "\r">>, <<BQ, BQ, BQ, "\t">>,
      <<BQ, BQ, BQ, " ", "x", " ", "x">> }

CycleLines ==
    { <<BQ, BQ, BQ>>, <<" ", " ", BQ, BQ, BQ>>, <<" ", " ", "x">> }

\* a blockquote opener indented by a tab, and lines of spaces only
QuoteTabLines ==
    { <<">", "\t", BQ, BQ, BQ>>, <<">", " ", BQ, BQ, BQ>>, <<">", " ", "x">>,
      <<" ", " ", " ">>, <<>> }

\* an opener indented by two spaces, and lines indented deeper by a tab or
\* by spaces
DeepLines ==
    { <<" ", " ", BQ, BQ, BQ>>, <<"\t", "x">>, <<" ", " ", " ", "x">>, <<"\t">>, <<"x">> }

\* openers at a tab, in a blockquote and at the margin, and content lines with
\* tabs in the indentation and in the content
RawLines ==
    { <<"\t", BQ, BQ, BQ>>, <<BQ, BQ, BQ>>, <<"\t", "x", "\t", "y">>, <<"x", "\t", "y">>,
      <<">", "\t", BQ, BQ, BQ>>, <<">", "\t", "x">>, <<" ", " ", "x">> }

\* values of the hl_lines option that RE_HL_LINES accepts: one or two entries,
\* each a number or a range, and None
HlNumbers == {<<Digits[n + 1]>> : n \in 0..MaxHlNumber} \cup {<<"9", "9">>}
HlRanges == {a \o <<"-">> \o b : a, b \in HlNumbers}
HlLinesInputs ==
    HlNumbers \cup HlRanges
    \cup {a \o <<" ">> \o b : a, b \in HlNumbers \cup HlRanges}
    \cup {NoneText, <<"0", "3", " ", "\t", "1", "-", "2">>}

\* entries of the custom_fences configuration (format and validator are the
\* defaults of extendMarkdown unless the entry names others)
CustomX ==
    [name |-> <<"x">>, class |-> <<"x">>, format |-> "fence_code_format",
     validator |-> "default_validator"]
CustomStar ==
    [name |-> <<"*">>, class |-> <<"x">>, format |-> "fence_div_format",
     validator |-> "default_validator"]
CustomNoClass ==
    [name |-> <<"t">>, class |-> NoneText, format |-> "fence_code_format",
     validator |-> "default_validator"]

\* a custom fence for the language x with a validator of the user
CustomV ==
    [name |-> <<"x">>, class |-> <<"x">>, format |-> "fence_div_format",
     validator |-> "custom"]

\* a custom fence that replaces the wildcard, with a validator of the user
CustomStarV ==
    [name |-> <<"*">>, class |-> <<"x">>, format |-> "fence_div_format",
     validator |-> "custom"]

\* openers with a language, options and the bracketed form, and a content line
CustomLines ==
    { <<BQ, BQ, BQ>>, <<BQ, BQ, BQ, "x">>, <<BQ, BQ, BQ, "x", " ", "t", "i", "t", "l", "e">>,
      <<BQ, BQ, BQ, "x", " ", "e">>, <<BQ, BQ, BQ, "{", "}">>,
      <<BQ, BQ, BQ, "{", ".", "x", " ", ".", "t", " ", ".", "e", " ", "#", "i", "}">>,
      <<BQ, BQ, BQ, "{", ".", "x", " ", "e", "=", "1", "}">>,
      <<BQ, BQ, BQ, "{", "#", "i", "\t", "t", "i", "t", "l", "e", "}">>,
      <<BQ, BQ, BQ, "{", ".", "x">>, <<"x">> }

\* the keys and values of the inputs of a direct validator call
ValidatorKeys ==
    {KeyTitle, KeyHlLines, KeyLinenums, KeyData \o <<"x">>, <<"e">>}
ValidatorValues == {<<"1">>, <<"x">>}
ValidatorNames == {"highlight_validator", "default_validator"}

\* the key orders of an inputs dict: sequences without repetition
KeySeqs(n) ==
    {ks \in UNION {[1..m -> ValidatorKeys] : m \in 0..n} :
        \A i, j \in 1..Len(ks) : i /= j => ks[i] /= ks[j]}

Profiles ==
    {"plain", "quoted", "tabbed", "cycle", "recover", "quotetab", "deep", "registry",
     "custom", "validators", "raw", "hl"}

\* the custom_fences lists of a profile
ProfileCustomFences(p) ==
    IF p = "registry" THEN {<<>>, <<CustomX>>, <<CustomStar>>, <<CustomNoClass, CustomX>>}
    ELSE IF p = "custom"
    THEN {<<>>, <<CustomX>>, <<CustomV>>, <<CustomX, CustomV>>, <<CustomStarV>>}
    ELSE {<<>>}

ProfileLines(p) ==
    CASE p = "plain" -> PlainLines
      [] p = "quoted" -> QuotedLines
      [] p = "tabbed" -> TabbedLines
      [] p = "quotetab" -> QuoteTabLines
      [] p = "deep" -> DeepLines
      [] p = "custom" -> CustomLines
      [] p = "raw" -> RawLines
      [] OTHER -> CycleLines

\* the cycle profile scans several documents, with either setting of
\* disable_indented_code_blocks; the recover profile calls the recovery
PassLimit(p) ==
    IF p = "cycle" THEN MaxPasses ELSE IF p \in {"registry", "validators", "hl"} THEN 0 ELSE 1
LineLimit(p) ==
    IF p = "custom" THEN MaxShortLines
    ELSE IF p \in {"quotetab", "deep", "raw"} THEN MaxShortLines + 1
    ELSE MaxLines
RecoverLimit(p) == IF p = "recover" THEN MaxRecover ELSE 0
ProfileConfigs(p) ==
    [disable_indented_code_blocks : IF p \in {"cycle", "raw"} THEN BOOLEAN ELSE {FALSE},
     preserve_tabs : {FALSE},
     use_pygments : IF p = "validators" THEN BOOLEAN ELSE {TRUE},
     attr_list : IF p = "custom" THEN BOOLEAN ELSE {FALSE}]

Outcomes == {"ok", "raise", "hard"}

\* what the formatter may do on the next line: it is only called while a
\* fence is in progress (the raw profile compares the two preprocessors on
\* documents whose formatter calls succeed)
StepOutcomes == IF fenced.fence = <<>> \/ profile = "raw" THEN {"ok"} ELSE Outcomes

\* what the validator of the user may do on the next line: it is only called
\* while no fence is in progress, and only if a kind has one
StepValidatorOutcomes ==
    IF fenced.fence = <<>> /\ \E i \in 1..Len(superfences) : superfences[i].validator = "custom"
    THEN ValidatorOutcomes ELSE {"ok"}

AbortEvents == {"abort_indent", "abort_quote", "abort_lazy", "abort_unquoted"}
LineEvents == AbortEvents \cup
    {"pass", "reject", "open", "blank", "content", "close", "fmt_raise", "hard", "unformatted",
     "vhard"}

\* ------------------------------------------------------------ the actions
\* extendMarkdown with the default configuration (no custom fences), then
\* patch_fenced_rule: the wildcard kind with the highlight formatter
Init ==
    /\ profile \in Profiles
    /\ \E custom_fences \in ProfileCustomFences(profile) :
          superfences = IF profile = "registry" THEN <<>>
                        ELSE extendMarkdown(<<>>, custom_fences)
    /\ setup = [ops |-> 0, extended |-> IF profile = "registry" THEN 0 ELSE 1, err |-> FALSE]
    /\ vcall = <<>>
    /\ fcall = <<>>
    /\ hl = <<>>
    /\ rawp = [f |-> NewRawPreprocessor, stash |-> EmptyDict, hc |-> 0, start |-> 0,
               event |-> "init", fcall |-> <<>>, output |-> <<>>]
    /\ stash = EmptyDict
    /\ html_counter = 0
    /\ fenced = NewPreprocessor
    /\ lines = <<>>
    /\ count = 0
    /\ start = 0
    /\ phase = "idle"
    /\ output = <<>>
    /\ rec = [block |-> <<>>, out |-> <<>>, err |-> FALSE, hits |-> <<>>, before |-> EmptyDict]
    /\ event = "init"
    /\ pre = [f |-> NewPreprocessor, stash |-> EmptyDict, hc |-> 0]
    /\ captured = <<>>
    /\ aborted = {}
    /\ orig = EmptyDict
    /\ restores = EmptyDict
    /\ config \in ProfileConfigs(profile)
    /\ scanned = 0
    /\ passes = 0
    /\ recovers = 0

\* SuperFencesRawBlockPreprocessor.run up to the call of search_nested
raw_run(rp, cfg) ==
    [rp EXCEPT !.f = [clear(rp.f) EXCEPT !.stack = <<>>,
                         !.disabled_indented = cfg.disable_indented_code_blocks],
               !.event = "run", !.fcall = <<>>]

\* the assignments of one iteration on the raw preprocessor, r the result of
\* search_line
RawScanStep(r) ==
    rawp' = [rawp EXCEPT !.f = r.f, !.stash = r.stash, !.hc = r.hc, !.start = r.start,
                         !.event = r.event, !.fcall = r.fcall]

\* the end of the document on the raw preprocessor
raw_finish(rp, ls) ==
    [rp EXCEPT !.output = raw_reassemble(ls, rp.f.stack), !.f.stack = <<>>,
               !.event = "finish", !.fcall = <<>>]

\* SuperFencesBlockPreprocessor.run up to the call of search_nested
\* (preserve_tabs is off, so restore_raw_text is not called)
Run ==
    /\ phase \in {"idle", "failed"}
    /\ passes < PassLimit(profile)
    /\ scanned < LineLimit(profile)
    /\ fenced' = [clear(fenced) EXCEPT !.stack = <<>>,
                     !.disabled_indented = config.disable_indented_code_blocks]
    /\ lines' = <<>>
    /\ count' = 0
    /\ phase' = "scan"
    /\ event' = "run"
    /\ pre' = [f |-> fenced, stash |-> stash, hc |-> html_counter]
    /\ captured' = <<>>
    /\ aborted' = {}
    /\ passes' = passes + 1
    /\ rawp' = IF profile = "raw" THEN raw_run(rawp, config) ELSE rawp
    /\ UNCHANGED <<setup, vcall, fcall, hl, superfences, config, stash, html_counter, start, output, rec, orig,
                   restores, profile, scanned, recovers>>

\* variant: after an abort the scan goes back to the line after the opener
ScanStepRewind(raw, r) ==
    /\ fenced' = r.f
    /\ stash' = r.stash
    /\ html_counter' = r.hc
    /\ start' = r.start
    /\ lines' = Append(lines, raw)
    /\ count' = IF r.event \in {"hard", "vhard"} THEN count
                ELSE IF r.event \in AbortEvents THEN start + 1 ELSE count + 1
    /\ phase' = IF r.event \in {"hard", "vhard"} THEN "failed" ELSE "scan"
    /\ event' = r.event
    /\ vcall' = r.calls
    /\ fcall' = r.fcall
    /\ captured' = IF r.event = "close" THEN Append(captured, r.f.stack[Len(r.f.stack)])
                   ELSE captured
    /\ aborted' = IF r.event \in AbortEvents
                  THEN aborted \cup {<<start, count>>} ELSE aborted
    /\ orig' = IF r.event = "close"
               THEN DictPut(orig, PlaceholderKey(Placeholder(html_counter)),
                            SubSeq(Append(lines, raw), start + 1, count + 1))
               ELSE orig

\* the assignments of one iteration, r the result of search_line
ScanStep(raw, r) ==
    /\ fenced' = r.f
    /\ stash' = r.stash
    /\ html_counter' = r.hc
    /\ start' = r.start
    /\ lines' = Append(lines, raw)
    /\ count' = IF r.event \in {"hard", "vhard"} THEN count ELSE count + 1
    /\ phase' = IF r.event \in {"hard", "vhard"} THEN "failed" ELSE "scan"
    /\ event' = r.event
    /\ vcall' = r.calls
    /\ fcall' = r.fcall
    /\ captured' = IF r.event = "close" THEN Append(captured, r.f.stack[Len(r.f.stack)])
                   ELSE captured
    /\ aborted' = IF r.event \in AbortEvents
                  THEN aborted \cup {<<start, count>>} ELSE aborted
    /\ orig' = IF r.event = "close"
               THEN DictPut(orig, PlaceholderKey(Placeholder(html_counter)),
                            SubSeq(Append(lines, raw), start + 1, count + 1))
               ELSE orig

\* one iteration of search_nested on the next line of the document
ScanLine ==
    /\ phase = "scan"
    /\ scanned < LineLimit(profile)
    /\ \E raw \in ProfileLines(profile), outcome \in StepOutcomes,
          vout \in StepValidatorOutcomes :
          /\ ScanStep(raw, search_line([f |-> fenced, stash |-> stash, hc |-> html_counter],
                                  raw, count, start, superfences, config, outcome, vout))
          /\ IF profile = "raw"
             THEN RawScanStep(search_line([f |-> rawp.f, stash |-> rawp.stash, hc |-> rawp.hc],
                                          raw, count, rawp.start, superfences, config,
                                          outcome, vout))
             ELSE UNCHANGED rawp
    /\ pre' = [f |-> fenced, stash |-> stash, hc |-> html_counter]
    /\ scanned' = scanned + 1
    /\ UNCHANGED <<setup, hl, superfences, config, output, rec, restores, profile,
                   passes, recovers>>

\* variant: a fence still open at the end of the document is closed there
FinishClosesOpen ==
    /\ phase = "scan"
    /\ output' = reassemble(lines,
                     IF fenced.fence = <<>> THEN fenced.stack
                     ELSE Append(fenced.stack,
                                 [fenced |-> fenced.ws \o Placeholder(html_counter),
                                  start |-> start, end |-> Len(lines)]))
    /\ fenced' = [fenced EXCEPT !.stack = <<>>]
    /\ phase' = "idle"
    /\ event' = "finish"
    /\ pre' = [f |-> fenced, stash |-> stash, hc |-> html_counter]
    /\ UNCHANGED <<setup, vcall, fcall, hl, rawp, superfences, config, stash, html_counter, lines, count, start, rec,
                   captured, aborted, orig, restores, profile, scanned, passes,
                   recovers>>

\* the end of the document: search_nested returns reassemble(lines)
Finish ==
    /\ phase = "scan"
    /\ output' = reassemble(lines, fenced.stack)
    /\ fenced' = [fenced EXCEPT !.stack = <<>>]
    /\ phase' = "idle"
    /\ event' = "finish"
    /\ pre' = [f |-> fenced, stash |-> stash, hc |-> html_counter]
    /\ rawp' = IF profile = "raw" THEN raw_finish(rawp, lines) ELSE rawp
    /\ UNCHANGED <<setup, vcall, fcall, hl, superfences, config, stash, html_counter, lines, count, start, rec,
                   captured, aborted, orig, restores, profile, scanned, passes,
                   recovers>>

\* SuperFencesCodeExtension.reset, which the host calls between documents
Reset ==
    /\ phase \in {"idle", "failed"}
    /\ event /= "reset"
    /\ passes < PassLimit(profile)
    /\ stash' = clear_stash(stash)
    /\ event' = "reset"
    /\ pre' = [f |-> fenced, stash |-> stash, hc |-> html_counter]
    /\ UNCHANGED <<setup, vcall, fcall, hl, rawp, superfences, config, html_counter, fenced, lines, count, start, phase,
                   output, rec, captured, aborted, orig, restores, profile,
                   scanned, passes, recovers>>

\* the blocks the code-block processor is handed: a placeholder line at some
\* indentation, alone, twice, or after a line of indented code
PlaceholderLine(t, n) == Rep(" ", t) \o Placeholder(n)

RecoverBlocks ==
    UNION { { PlaceholderLine(t, n),
              PlaceholderLine(t, n) \o <<"\n">> \o PlaceholderLine(t, n),
              <<" ", " ", " ", " ", "x", "\n">> \o PlaceholderLine(t, n) }
            : t \in 0..MaxIndent, n \in 0..html_counter }

RECURSIVE CountHits(_, _)
CountHits(r, hits) ==
    IF hits = <<>> THEN r
    ELSE CountHits(DictPut(r, Head(hits),
                           IF Head(hits) \in DOMAIN r THEN r[Head(hits)] + 1 ELSE 1),
                   Tail(hits))

\* the assignments of a recovery, r the result of revert_greedy_fences
RecoverStep(block, r) ==
    /\ stash' = r.stash
    /\ rec' = [block |-> block, out |-> r.out, err |-> r.err, hits |-> r.hits, before |-> stash]
    /\ restores' = CountHits(restores, r.hits)

\* SuperFencesCodeBlockProcessor.run on a candidate block of indented code:
\* blocks[0] = revert_greedy_fences(blocks[0]) unless indented code is disabled
Recover ==
    /\ phase = "idle"
    /\ passes >= 1
    /\ recovers < RecoverLimit(profile)
    /\ ~config.disable_indented_code_blocks
    /\ \E block \in RecoverBlocks : RecoverStep(block, revert_greedy_fences(block, stash))
    /\ event' = "recover"
    /\ recovers' = recovers + 1
    /\ UNCHANGED <<setup, vcall, fcall, hl, rawp, superfences, config, html_counter, fenced, lines, count, start, phase,
                   output, pre, captured, aborted, orig, profile, scanned,
                   passes>>

\* SuperFencesCodeExtension.extendMarkdown for one more Markdown instance:
\* the registry is extended, the processors and the Stash are created anew
ExtendMarkdown ==
    /\ profile = "registry"
    /\ setup.ops < MaxRegOps
    /\ \E custom_fences \in ProfileCustomFences(profile) :
          superfences' = extendMarkdown(superfences, custom_fences)
    /\ fenced' = NewPreprocessor
    /\ stash' = EmptyDict
    /\ setup' = [ops |-> setup.ops + 1, extended |-> setup.extended + 1, err |-> FALSE]
    /\ event' = "extendMarkdown"
    /\ UNCHANGED <<vcall, fcall, hl, rawp, config, html_counter, lines, count, start, phase, output, rec, pre,
                   captured, aborted, orig, restores, profile, scanned, passes, recovers>>

\* the assignments of a call of extend_super_fences, r its result
ExtendStep(r) ==
    /\ superfences' = r.reg
    /\ setup' = [ops |-> setup.ops + 1, extended |-> setup.extended, err |-> r.err]

\* SuperFencesCodeExtension.extend_super_fences called by another extension,
\* before or after extendMarkdown
ExtendSuperFences ==
    /\ profile = "registry"
    /\ setup.ops < MaxRegOps
    /\ \E name \in {<<"x">>, <<"*">>} :
          ExtendStep(extend_super_fences(superfences, name, "fence_code_format",
                                         "default_validator"))
    /\ event' = "extend_super_fences"
    /\ UNCHANGED <<vcall, fcall, hl, rawp, config, stash, html_counter, fenced, lines, count, start, phase,
                   output, rec, pre, captured, aborted, orig, restores, profile, scanned,
                   passes, recovers>>

\* the assignments of a direct validator call, r its result
ValidateStep(name, values, r) ==
    vcall' = <<Call(0, name, <<"x">>, values, r)>>

\* a shipped validator called through the wrapper on inputs of its caller
\* (once in an exploration: the validators keep no state)
Validate ==
    /\ profile = "validators"
    /\ vcall = <<>>
    /\ \E name \in ValidatorNames, keys \in KeySeqs(MaxKeys) :
          \E values \in [{keys[i] : i \in 1..Len(keys)} -> ValidatorValues] :
             ValidateStep(name, values,
                          Validator(name, keys, values, config.use_pygments, "ok"))
    /\ event' = "validate"
    /\ UNCHANGED <<fcall, hl, rawp, setup, superfences, config, stash, html_counter, fenced, lines, count,
                   start, phase, output, rec, pre, captured, aborted, orig, restores, profile,
                   scanned, passes, recovers>>

\* the assignments of a call of parse_hl_lines, r its result
HlStep(hl_lines, line_count, r) ==
    hl' = <<[hl_lines |-> hl_lines, line_count |-> line_count, out |-> r]>>

\* highlight calling parse_hl_lines on the hl_lines option of a block of
\* line_count lines (once in an exploration: the call keeps no state)
ParseHlLines ==
    /\ profile = "hl"
    /\ hl = <<>>
    /\ \E line_count \in 0..MaxLineCount, hl_lines \in HlLinesInputs :
          HlStep(hl_lines, line_count, parse_hl_lines(hl_lines, line_count))
    /\ event' = "parse_hl_lines"
    /\ UNCHANGED <<setup, vcall, fcall, rawp, superfences, config, stash, html_counter, fenced,
                   lines, count, start, phase, output, rec, pre, captured, aborted, orig,
                   restores, profile, scanned, passes, recovers>>

Next ==
    Run \/ ScanLine \/ Finish \/ Reset \/ Recover \/ ExtendMarkdown \/ ExtendSuperFences
    \/ Validate \/ ParseHlLines

Spec == Init /\ [][Next]_vars

\* ============================================================== the claims
\* the line the last scan step read, as search_nested sees it
LastLine == RStrip(lines[Len(lines)], {"\r"})

\* the last step was a scan step on a line read inside a fence
InFenceStep == event \in LineEvents /\ pre.f.fence /= <<>>

\* the closer test was reached: the fence ended, or the formatter stopped the pass
CloserRecognized == event \in {"close", "fmt_raise", "hard", "unformatted"}

\* a line seen as prefix, run of one marker character, trailing spaces or tabs
AsRun(line) ==
    LET n    == RunLen(line, 1, PREFIX_CHARS)
        rest == Drop(line, n)
        m    == IF rest /= <<>> /\ rest[1] \in FenceChars THEN RunLen(rest, 1, {rest[1]}) ELSE 0
    IN  [isRun  |-> m >= 1 /\ \A i \in (m + 1)..Len(rest) : rest[i] \in {" ", "\t"},
         ch     |-> IF m >= 1 THEN rest[1] ELSE "",
         m      |-> m,
         prefix |-> SubSeq(line, 1, n),
         rest   |-> rest,
         width  |-> Len(normalize_ws(SubSeq(line, 1, n))),
         quotes |-> CountChar(SubSeq(line, 1, n), ">")]

\* the line is indented exactly to the virtual indentation of the opener and
\* no quote rule stands against it
Admissible(f, r) ==
    /\ r.width = f.ws_virtual_len
    /\ IF f.quote_level = 0 THEN r.quotes = 0
       ELSE r.quotes <= f.quote_level /\ ~(f.empty_lines > 0 /\ r.quotes < f.quote_level)

ShortOrOtherRun(f, r) == r.isRun /\ (r.ch /= f.fence[1] \/ r.m < Len(f.fence))

\* C2 (as amended): a run line that is shorter than the opener or made of the
\* other marker never closes the fence; it is appended to the captured
\* content with the scanner still IN_FENCE, unless the indentation or
\* quote-depth rules disqualify it, and then the fence is aborted.  An
\* admissible line is always appended; an under-indented one outside a
\* blockquote always aborts.
ShortRunNeverCloses ==
    InFenceStep =>
        LET r == AsRun(LastLine)
            f == pre.f
        IN  ShortOrOtherRun(f, r) =>
               /\ ~CloserRecognized
               /\ fenced.stack = f.stack /\ stash = pre.stash
               /\ \/ /\ event = "content"
                     /\ fenced.fence = f.fence
                     /\ Len(fenced.code) = Len(f.code) + 1
                     /\ SubSeq(fenced.code, 1, Len(f.code)) = f.code
                     /\ normalize_ws(fenced.code[Len(fenced.code)]) = normalize_ws(LastLine)
                  \/ /\ event \in AbortEvents
                     /\ fenced.fence = <<>>
               /\ Admissible(f, r) => event = "content"
               /\ (f.quote_level = 0 /\ r.width < f.ws_virtual_len) => event \in AbortEvents

\* C2 witness: a run of the other marker kept as content of an open fence
ShortRunNeverClosesWitness ==
    /\ InFenceStep /\ event = "content"
    /\ AsRun(LastLine).isRun /\ AsRun(LastLine).ch /= pre.f.fence[1]
    /\ AsRun(LastLine).m >= Len(pre.f.fence)

\* C2 as stated: every such line is appended and the scanner stays IN_FENCE
ShortRunAlwaysContent ==
    InFenceStep =>
        (ShortOrOtherRun(pre.f, AsRun(LastLine)) =>
            /\ event = "content"
            /\ fenced.fence = pre.f.fence
            /\ Len(fenced.code) = Len(pre.f.code) + 1)

\* lines removed in front of the 0-based line index i by the blocks ending
\* at or before it
RECURSIVE ShiftBefore(_, _)
ShiftBefore(blocks, i) ==
    IF blocks = <<>> THEN 0
    ELSE (IF Head(blocks).end <= i THEN Head(blocks).end - Head(blocks).start - 1 ELSE 0)
         + ShiftBefore(Tail(blocks), i)

InsideBlock(blocks, i) == \E b \in 1..Len(blocks) : blocks[b].start <= i /\ i < blocks[b].end

\* the prefix of an opener line with its tabs expanded
OpenerPrefix(line) ==
    LET l == RStrip(line, {"\r"})
    IN  normalize_ws(SubSeq(l, 1, RunLen(l, 1, PREFIX_CHARS)))

\* C3: the scan returns the input with the line range [start, end) of every
\* captured block replaced by one line, the normalized prefix of the opener
\* followed by a placeholder of its own; the ranges are pairwise disjoint and
\* every line outside them is unchanged and in its original order.
ScanReplacesBlocks ==
    event = "finish" =>
        /\ \A b \in 1..Len(captured) :
              /\ 0 <= captured[b].start /\ captured[b].start + 2 <= captured[b].end
              /\ captured[b].end <= Len(lines)
              /\ \A c \in 1..Len(captured) : b < c => captured[b].end <= captured[c].start
        /\ Len(output) = Len(lines) - ShiftBefore(captured, Len(lines))
        /\ \A i \in 0..(Len(lines) - 1) :
              ~InsideBlock(captured, i) =>
                  output[i + 1 - ShiftBefore(captured, i)] = lines[i + 1]
        /\ \A b \in 1..Len(captured) :
              LET o == output[captured[b].start + 1 - ShiftBefore(captured, captured[b].start)]
                  p == OpenerPrefix(lines[captured[b].start + 1])
              IN  /\ SubSeq(o, 1, Len(p)) = p
                  /\ \E n \in 0..(html_counter - 1) : Drop(o, Len(p)) = Placeholder(n)
                  /\ \A c \in 1..Len(captured) :
                        b /= c => o /= output[captured[c].start + 1
                                              - ShiftBefore(captured, captured[c].start)]

\* C3 witness: a document of two captured blocks has been reassembled
ScanReplacesBlocksWitness ==
    event = "finish" /\ Len(captured) = 2 /\ Len(output) = 2

\* the 0-based line index i lies outside every captured block and is unchanged
\* in the output the document would give if it ended now
LineKept(i) ==
    /\ ~InsideBlock(captured, i)
    /\ reassemble(lines, captured)[i + 1 - ShiftBefore(captured, i)] = lines[i + 1]

\* C4: when a fence in progress is disqualified, the scanner is back in
\* IDLE, no placeholder replacement and no Stash entry has been recorded, and
\* every line from the opener to the disqualifying line is unchanged in the
\* output; an under-indented non-blank line outside a blockquote, a quote
\* depth above that of the opener and a quote marker in a fence opened at
\* quote depth 0 all disqualify.
AbortLeavesText ==
    /\ (event \in AbortEvents) =>
          /\ fenced.fence = <<>>
          /\ fenced.stack = pre.f.stack
          /\ stash = pre.stash
          /\ html_counter = pre.hc
          /\ \A i \in start..(count - 1) : LineKept(i)
    /\ event = "finish" =>
          \A a \in aborted : \A i \in a[1]..a[2] :
              /\ ~InsideBlock(captured, i)
              /\ output[i + 1 - ShiftBefore(captured, i)] = lines[i + 1]
    /\ InFenceStep =>
          LET f == pre.f
              r == AsRun(LastLine)
              q == CountChar(parse_fence_line(LastLine, f.ws_virtual_len).ws, ">")
          IN  /\ (f.quote_level = 0 /\ Strip(LastLine) /= <<>> /\ r.width < f.ws_virtual_len)
                    => event \in AbortEvents
              /\ (f.quote_level > 0 /\ q > f.quote_level) => event = "abort_quote"
              /\ (f.quote_level = 0 /\ q > 0) => event = "abort_unquoted"

\* C4 witness: a fence that had captured content is aborted by an
\* under-indented line
AbortLeavesTextWitness ==
    /\ event = "abort_indent"
    /\ Len(pre.f.code) > 0

\* the lines of the block of the last recovery call, and those that match the
\* placeholder pattern
RecLines == Split(rec.block, "\n")
RecPlaceholders == {i \in 1..Len(RecLines) : MatchFencedBlock(RecLines[i]).ok}

\* C5 (the claim): a placeholder line whose key is not in the Stash raises no
\* error, stays in the block unchanged and leaves the Stash unchanged.
RecoveryMissIsHarmless ==
    ( /\ event = "recover"
      /\ RecPlaceholders /= {}
      /\ \A i \in RecPlaceholders : MatchFencedBlock(RecLines[i]).key \notin DOMAIN rec.before )
    => /\ ~rec.err
       /\ rec.out = rec.block
       /\ stash = rec.before

\* C6: the original of a captured block is spliced in at most once, and the
\* recovery step that splices it removes its key: a key restored is in the
\* Stash no longer, whatever recovery calls follow.
RestoredAtMostOnce ==
    /\ \A k \in DOMAIN restores : restores[k] <= 1 /\ k \notin DOMAIN stash
    /\ event = "recover" =>
          /\ \A i \in 1..Len(rec.hits) :
                /\ rec.hits[i] \in DOMAIN rec.before
                /\ rec.hits[i] \notin DOMAIN stash
                /\ \A j \in 1..Len(rec.hits) : i /= j => rec.hits[i] /= rec.hits[j]
          /\ DOMAIN stash = (DOMAIN rec.before) \ {rec.hits[i] : i \in 1..Len(rec.hits)}

\* C6 witness: recovery met the placeholder of a block it had restored before
\* (the same line again in the block, or a later call)
RestoredAtMostOnceWitness ==
    /\ event = "recover"
    /\ \E i \in RecPlaceholders :
          LET k == MatchFencedBlock(RecLines[i]).key
          IN  k \in DOMAIN restores /\ restores[k] = 1 /\ k \notin DOMAIN rec.before

\* C7 (the claim): every run starts on an empty Stash
RunStartsOnEmptyStash == event = "run" => stash = EmptyDict

\* C7 (as amended): the Stash is fully cleared by reset(), which the host has
\* to call between documents; run neither clears it nor adds to it before
\* the first line, so a pass that was not preceded by reset starts with the
\* entries the earlier passes left.
ResetClearsStash ==
    /\ event = "reset" => stash = EmptyDict
    /\ event = "run" => stash = pre.stash

\* C7 witness: reset emptied a Stash that held an entry of the document before
ResetClearsStashWitness ==
    event = "reset" /\ DOMAIN pre.stash /= {} /\ passes >= 1

\* the last recovery call spliced in exactly one original, that of key k
SingleHit(k) == event = "recover" /\ ~rec.err /\ rec.hits = <<k>>

\* its target indentation, and the lines of the block in front of the placeholder
HitLevel == MatchFencedBlock(RecLines[Len(RecLines)]).indent_level
HitLead == SubSeq(RecLines, 1, Len(RecLines) - 1)

\* C8 (the claim): recovered at a target indent equal to the recorded virtual
\* indentation, a block comes back as the opener, content and closer lines
\* that were scanned, character for character.
RoundTrip ==
    \A k \in DOMAIN rec.before :
        (SingleHit(k) /\ HitLevel = rec.before[k].indent_level)
            => Split(rec.out, "\n") = HitLead \o orig[k]

\* a line moved by d columns: d spaces in front, or -d columns taken away
Shifted(line, d) == IF d >= 0 THEN Rep(" ", d) \o line ELSE Drop(line, -d)

\* C9 (the claim): every line of the stashed original is shifted by
\* (target indent - recorded indent) columns and the result replaces the
\* placeholder line, for a target below, at and above the recorded indent.
RecoveryShifts ==
    \A k \in DOMAIN rec.before :
        SingleHit(k) =>
            LET ls == Split(rec.before[k].code, "\n")
                d  == HitLevel - rec.before[k].indent_level
            IN  Split(rec.out, "\n") = HitLead \o [i \in 1..Len(ls) |-> Shifted(ls[i], d)]

\* the quote depth of the last line as the scanner measures it inside a fence:
\* the quote markers among the prefix characters that fill the virtual
\* indentation of the opener
MeasuredQuoteDepth ==
    CountChar(parse_fence_line(LastLine, pre.f.ws_virtual_len).ws, ">")

\* C10: in a fence opened at quote depth d > 0, a line is appended to the
\* captured content only if its quote depth is at most d, and a line whose
\* quote depth exceeds d aborts the fence there and then.
QuoteDepthContained ==
    (InFenceStep /\ pre.f.quote_level > 0) =>
        /\ MeasuredQuoteDepth > pre.f.quote_level =>
              /\ event = "abort_quote"
              /\ fenced.fence = <<>> /\ fenced.code = <<>>
        /\ Len(fenced.code) > Len(pre.f.code) =>
              /\ event \in {"content", "blank"}
              /\ MeasuredQuoteDepth <= pre.f.quote_level
        /\ fenced.fence /= <<>> => fenced.quote_level = pre.f.quote_level

\* C10 witness: a fence opened at quote depth 1 that had captured a line is
\* aborted by a line of quote depth 2
QuoteDepthContainedWitness ==
    /\ InFenceStep /\ event = "abort_quote"
    /\ pre.f.quote_level = 1 /\ MeasuredQuoteDepth = 2
    /\ pre.f.code /= <<>>

\* the last line is blank for a fence opened inside a blockquote: nothing is
\* left of it behind the prefix the scanner takes
QuotedBlank == parse_fence_line(LastLine, pre.f.ws_virtual_len).content = <<>>

HasText == AsRun(LastLine).rest /= <<>>

\* C12 (the claim): in a fence opened at quote depth > 0, a line of quote
\* depth within bounds that has text and whose prefix is narrower, in
\* tab-expanded columns, than the indentation of the opener aborts the fence;
\* a line of whitespace only never aborts it and adds one to the blank-line
\* counter.
QuotedUnderIndentAborts ==
    ( /\ InFenceStep
      /\ pre.f.quote_level > 0
      /\ MeasuredQuoteDepth <= pre.f.quote_level )
    => /\ (HasText /\ AsRun(LastLine).width < pre.f.ws_virtual_len)
             => (event \in AbortEvents /\ fenced.fence = <<>>)
       /\ Strip(LastLine) = <<>>
             => /\ event = "blank"
                /\ fenced.fence = pre.f.fence
                /\ fenced.empty_lines = pre.f.empty_lines + 1

\* C13 (the claim): in a fence opened at quote depth 0, a line of whitespace
\* only is captured as a blank line; a line with text and no quote marker
\* whose indentation, in tab-expanded columns, is at least that of the opener
\* is kept as content or recognized as the closer; one indented less aborts
\* the fence.
UnquotedDepthRule ==
    (InFenceStep /\ pre.f.quote_level = 0) =>
        LET r == AsRun(LastLine)
        IN  /\ Strip(LastLine) = <<>>
                  => /\ event = "blank"
                     /\ fenced.fence = pre.f.fence
                     /\ Len(fenced.code) = Len(pre.f.code) + 1
            /\ (HasText /\ r.quotes = 0 /\ r.width >= pre.f.ws_virtual_len)
                  => (event = "content" \/ CloserRecognized)
            /\ (HasText /\ r.quotes = 0 /\ r.width < pre.f.ws_virtual_len)
                  => (event \in AbortEvents /\ fenced.fence = <<>>)

\* the positions of the kinds whose test accepts every language
Wildcards(reg) == {i \in 1..Len(reg) : reg[i].test = NoneText \/ reg[i].test = <<"*">>}

\* C16 (the claim): once extendMarkdown has run, and whatever registry
\* operations came before or come after it, the registry holds exactly one
\* wildcard kind, at position 0 (the first of the sequence), and every custom
\* kind behind it.
OneWildcardAtFront ==
    setup.extended >= 1 => Wildcards(superfences) = {1}

\* the validators the extension ships
Shipped(c) == c.validator \in {"highlight_validator", "default_validator"}

\* C14: every call of a shipped validator, made directly or by the scan,
\* leaves each key of its inputs in exactly one of the options and the
\* attributes: in one of them, and never in both.
ValidatorPartitions ==
    \A n \in 1..Len(vcall) :
        Shipped(vcall[n]) =>
            /\ DOMAIN vcall[n].options \cup DOMAIN vcall[n].attrs = DOMAIN vcall[n].values
            /\ DOMAIN vcall[n].options \cap DOMAIN vcall[n].attrs = {}

\* a direct call of highlight_validator with Pygments that made one key an
\* option and another an attribute
ValidatorPartitionsWitness ==
    /\ event = "validate"
    /\ vcall[1].validator = "highlight_validator"
    /\ config.use_pygments
    /\ DOMAIN vcall[1].options /= {}
    /\ DOMAIN vcall[1].attrs /= {}

\* the opener of the last scan step as the grammar matched it
LastOpener == MatchFenceStart(LastLine, parse_whitespace(LastLine).ws_len)

\* the validation of call c succeeded: the validator returned true and, in
\* the option-string form, left no attribute
Succeeded(c) ==
    c.raised = "no" /\ c.okay /\ (LastOpener.attrs = <<>> => DOMAIN c.attrs = {})

\* C15: when an opener is accepted, the validators were called from the
\* most recently registered kind downwards, exactly on the kinds whose test
\* accepts the language, down to the first kind whose validation succeeded;
\* that kind supplies the bound formatter and options.  So a custom kind
\* that matches the language and validates wins over the wildcard.
MostRecentKindWins ==
    event = "open" =>
        /\ vcall /= <<>>
        /\ \A n \in 1..(Len(vcall) - 1) :
               vcall[n].kind > vcall[n + 1].kind /\ ~Succeeded(vcall[n])
        /\ Succeeded(vcall[Len(vcall)])
        /\ \A n \in 1..Len(vcall) : vcall[n].lang = fenced.lang
        /\ {vcall[n].kind : n \in 1..Len(vcall)}
              = {i \in vcall[Len(vcall)].kind..Len(superfences) :
                    Test(fenced.lang, superfences[i].test)}
        /\ fenced.formatter = superfences[vcall[Len(vcall)].kind].formatter
        /\ fenced.options = vcall[Len(vcall)].options

\* the most recent kind for the language failed, the custom kind registered
\* before it validated and was bound, the wildcard was not asked
MostRecentKindWinsWitness ==
    /\ event = "open"
    /\ Len(superfences) = 3
    /\ Len(vcall) = 2
    /\ vcall[1].kind = 3
    /\ vcall[2].kind = 2
    /\ fenced.formatter = "fence_code_format"

\* C17: without attribute-list support an opener is not accepted when the
\* validator of the kind that would be bound placed a key in the attributes:
\* whenever an opener is accepted with attribute-list support off, the
\* validator call that won returned no attribute (in either form).
AttrsWithoutAttrListFail ==
    (event = "open" /\ ~config.attr_list) => DOMAIN vcall[Len(vcall)].attrs = {}

\* the last scan step stored nothing and left the scanner unbound: no
\* placeholder, no Stash entry, no block recorded for replacement
RejectedFrame ==
    /\ fenced.fence = <<>>
    /\ stash = pre.stash
    /\ html_counter = pre.hc
    /\ fenced.stack = pre.f.stack
    /\ phase = "scan"

\* a validator called by the last scan step raised an ordinary exception
ValidatorRaised == \E n \in 1..Len(vcall) : vcall[n].raised = "raise"

\* SuperFencesException of a validator or of a formatter ends the pass
HardPropagates ==
    /\ (event \in {"open", "reject", "vhard"}
         /\ \E n \in 1..Len(vcall) : vcall[n].raised = "hard")
       => (event = "vhard" /\ vcall[Len(vcall)].raised = "hard")
    /\ event \in {"hard", "vhard"}
       => (phase = "failed" /\ stash = pre.stash /\ html_counter = pre.hc)

\* C18 as stated: SuperFencesException ends the pass, and after any other
\* exception of a validator or of a formatter the fence is rejected.
OtherExceptionRejects ==
    /\ HardPropagates
    /\ event = "fmt_raise" => RejectedFrame
    /\ (event \in {"open", "reject"} /\ ValidatorRaised)
       => (event = "reject" /\ RejectedFrame)

\* C18, amended: SuperFencesException of a validator or of a formatter ends
\* the pass.  Any other exception of a formatter rejects the fence (nothing
\* stored, no block recorded, scanner unbound).  Any other exception of a
\* validator is a validation failure of its kind only: the kind is never
\* bound, the matching kinds registered before it are still tried in turn
\* until one validates, and the opener is rejected when none of them does.
OtherExceptionFailsKind ==
    /\ HardPropagates
    /\ event = "fmt_raise" => RejectedFrame
    /\ event = "open" => vcall[Len(vcall)].raised = "no"
    /\ (event \in {"open", "reject"} /\ ValidatorRaised)
       => /\ \A n \in 1..Len(vcall) :
                vcall[n].raised = "raise" =>
                    \A i \in 1..(vcall[n].kind - 1) :
                        Test(vcall[n].lang, superfences[i].test)
                        => \/ \E k \in (n + 1)..Len(vcall) : vcall[k].kind = i
                           \/ (event = "open" /\ i < vcall[Len(vcall)].kind)
          /\ event = "reject" => (RejectedFrame /\ \A n \in 1..Len(vcall) : ~Succeeded(vcall[n]))

\* the validator of the custom kind raised an ordinary exception and the
\* wildcard accepted the opener
OtherExceptionFailsKindWitness ==
    /\ event = "open"
    /\ Len(vcall) = 2
    /\ vcall[1].raised = "raise"
    /\ vcall[2].kind = 1
    /\ fenced.formatter = "highlight"

\* the last scan step read its line with the scanner unbound
IdleStep == event \in LineEvents /\ pre.f.fence = <<>>

\* no kind validated the opener of the last scan step, and none ended the pass
NoKindValidates ==
    \A n \in 1..Len(vcall) : ~Succeeded(vcall[n]) /\ vcall[n].raised /= "hard"

\* C19: a line read with the scanner unbound that does not match the opener
\* grammar, or matches it while no registered kind validates its options,
\* leaves the scanner unbound, stores no placeholder and no Stash entry,
\* records no block, and is unchanged in the output.
NonMatchPassesThrough ==
    (IdleStep /\ (~LastOpener.ok \/ NoKindValidates)) =>
        /\ event \in {"pass", "reject"}
        /\ RejectedFrame
        /\ LineKept(count - 1)

\* an opener with an option that no kind validates, read after a line of text
NonMatchPassesThroughWitness ==
    /\ event = "reject"
    /\ LastOpener.ok
    /\ vcall /= <<>>
    /\ Len(lines) = 2

\* the attribute list of the bracketed opener of the last scan step, as the
\* host parses it, and its classes, ids and other pairs in their order
LastAttrs == get_attrs(TabsToSpaces(LastOpener.attrs))
IsClass(a) == a[1] = <<".">>
IsId(a) == a[1] = <<"i", "d">>
IsOther(a) == ~IsClass(a) /\ ~IsId(a)
LastClasses == SelectSeq(LastAttrs, IsClass)
LastIds == SelectSeq(LastAttrs, IsId)
LastOthers == SelectSeq(LastAttrs, IsOther)

\* C20: when a bracketed opener is read, every validator is called with
\* the first class as language (the empty string when there is no class)
\* and with exactly the keys that are neither a class nor an id, each with
\* the value given last; when the opener is accepted the scanner holds that
\* language, the remaining classes in their original order and the id
\* given last (none when no id was given).
BracketedOpenerFields ==
    (IdleStep /\ LastOpener.ok /\ LastOpener.attrs /= <<>>) =>
        /\ \A n \in 1..Len(vcall) :
              /\ vcall[n].lang = IF LastClasses = <<>> THEN <<>> ELSE LastClasses[1][2]
              /\ DOMAIN vcall[n].values = {LastOthers[j][1] : j \in 1..Len(LastOthers)}
              /\ \A j \in 1..Len(LastOthers) :
                    (\A k \in (j + 1)..Len(LastOthers) : LastOthers[k][1] /= LastOthers[j][1])
                    => vcall[n].values[LastOthers[j][1]] = LastOthers[j][2]
        /\ event = "open" =>
              /\ fenced.lang = IF LastClasses = <<>> THEN <<>> ELSE LastClasses[1][2]
              /\ Len(fenced.classes) = IF LastClasses = <<>> THEN 0 ELSE Len(LastClasses) - 1
              /\ \A j \in 1..Len(fenced.classes) : fenced.classes[j] = LastClasses[j + 1][2]
              /\ fenced.id = IF LastIds = <<>> THEN <<>> ELSE LastIds[Len(LastIds)][2]

\* an accepted bracketed opener with three classes and an id
BracketedOpenerFieldsWitness ==
    /\ event = "open"
    /\ Len(LastClasses) = 3
    /\ fenced.lang = <<"x">>
    /\ fenced.classes = << <<"t">>, <<"e">> >>
    /\ fenced.id = <<"i">>

\* the key of the placeholder the last valid close emitted
ClosedKey == PlaceholderKey(Placeholder(pre.hc))

\* C21: a valid close with indented-code recovery enabled records exactly
\* one Stash entry, under the key of the placeholder emitted for the block,
\* holding the original opener line, content lines and closer line and the
\* virtual indentation of the opener; with recovery disabled a scan step
\* adds no Stash entry.
CloseStashesOriginal ==
    /\ (event = "close" /\ ~pre.f.disabled_indented) =>
          /\ ClosedKey \notin DOMAIN pre.stash
          /\ DOMAIN stash = DOMAIN pre.stash \cup {ClosedKey}
          /\ \A k \in DOMAIN pre.stash : stash[k] = pre.stash[k]
          /\ stash[ClosedKey].code = Join(orig[ClosedKey], "\n")
          /\ stash[ClosedKey].indent_level = pre.f.ws_virtual_len
    /\ (event \in LineEvents /\ pre.f.disabled_indented) => stash = pre.stash

\* a step of a pass in progress: the line at the index count is read and the
\* index moves on by one, or an exception ends the pass on that line, or the
\* document ends
ScanAdvance ==
    phase = "scan" =>
        \/ /\ phase' = "scan"
           /\ count' = count + 1
           /\ Len(lines') = count'
           /\ SubSeq(lines', 1, count) = lines
        \/ /\ phase' = "failed"
           /\ count' = count
           /\ Len(lines') = count + 1
           /\ SubSeq(lines', 1, count) = lines
        \/ /\ phase' = "idle"
           /\ count' = count
           /\ lines' = lines

OpenAtEnd == event = "finish" /\ pre.f.fence /= <<>>

\* C23: when the document ends while a fence is in progress, no block was
\* recorded for it (every recorded block ends at or before its opener), the
\* end stores nothing in the Stash, every Stash entry of the pass belongs to
\* a closed block, and every line from the opener to the end of the
\* document is unchanged in the output.
UnclosedFenceIsText ==
    OpenAtEnd =>
        /\ \A b \in 1..Len(pre.f.stack) : pre.f.stack[b].end <= start
        /\ pre.f.stack = captured
        /\ stash = pre.stash
        /\ html_counter = pre.hc
        /\ \A k \in DOMAIN stash : k \in DOMAIN orig
        /\ \A i \in start..(Len(lines) - 1) :
              output[i + 1 - ShiftBefore(captured, i)] = lines[i + 1]

\* a document with a closed block, then an opener and a content line and no
\* closer
UnclosedFenceIsTextWitness ==
    /\ OpenAtEnd
    /\ captured /= <<>>
    /\ pre.f.code /= <<>>
    /\ Len(lines) = start + 2

\* the lines of the source of the last formatter call
SrcLines == Split(fcall[1].src, "\n")

\* the i-th line captured by the fence of the last close, as it was read
CapturedLine(i) == RStrip(lines[start + 1 + i], {"\r"})

\* C24: on a valid close the source handed to the formatter has one line for
\* every captured line, and for every captured line that is not blank (it
\* has a character that is not a quote marker, a space or a tab) it is the
\* line without a prefix of exactly the virtual indentation width of the
\* opener: the prefix taken off has that width and every character after it
\* is passed on.
SourceIsDedentedContent ==
    (event = "close" /\ pre.f.code /= <<>>) =>
        /\ fcall /= <<>>
        /\ Len(SrcLines) = Len(pre.f.code)
        /\ \A i \in 1..Len(pre.f.code) :
              RunLen(CapturedLine(i), 1, PREFIX_CHARS) < Len(CapturedLine(i)) =>
                  /\ Len(parse_fence_line(CapturedLine(i), pre.f.ws_virtual_len).ws)
                       = pre.f.ws_virtual_len
                  /\ SrcLines[i]
                       = parse_fence_line(CapturedLine(i), pre.f.ws_virtual_len).content

\* the text the raw preprocessor stored for the block it closed, by lines
RawStored == Split(rawp.stash[ClosedKey].code, "\n")

\* C25: on the same lines, with the same registry and validator outcomes and
\* a formatter that succeeds, the raw preprocessor takes the same branch as
\* the normal one on every line (it opens, aborts and closes where the normal
\* one does, and its scan state and block ranges are the same); it makes no
\* formatter call; and on a close it stores, whatever the configuration, the
\* opener, the captured lines as they were captured (the content after the
\* indentation of the opener character for character, tabs included) and
\* the closer
RawScansAlike ==
    (profile = "raw" /\ event \in LineEvents) =>
        /\ rawp.event = event
        /\ rawp.start = start
        /\ rawp.hc = html_counter
        /\ rawp.f = [fenced EXCEPT !.raw = TRUE, !.line_count = 0]
        /\ rawp.fcall = <<>>
        /\ event = "close" =>
              /\ fcall /= <<>>
              /\ ClosedKey \in DOMAIN rawp.stash
              /\ rawp.stash[ClosedKey].code =
                     pre.f.first \o <<"\n">> \o Join(pre.f.code, "\n") \o <<"\n">> \o fenced.last
              /\ rawp.stash[ClosedKey].indent_level = pre.f.ws_virtual_len
              /\ \A i \in 1..Len(pre.f.code) :
                    LET pf == parse_fence_line(CapturedLine(i), pre.f.ws_virtual_len)
                    IN  /\ RawStored[i + 1] = pf.ws \o pf.content
                        /\ CountChar(RawStored[i + 1], "\t") = CountChar(pf.content, "\t")

\* a block under a tab-indented opener with a tab in its content was closed;
\* the normal preprocessor stored it expanded
RawScansAlikeWitness ==
    /\ profile = "raw" /\ event = "close" /\ ~pre.f.disabled_indented
    /\ pre.f.ws_virtual_len > 0
    /\ CountChar(rawp.stash[ClosedKey].code, "\t") > 0
    /\ CountChar(stash[ClosedKey].code, "\t") = 0

\* the fields of a fence attempt hold the values clear() gives them
Canonical(f) ==
    /\ f.code = <<>> /\ f.empty_lines = 0 /\ f.quote_level = 0 /\ f.lang = NoneText
    /\ f.options = EmptyDict /\ f.attrs = EmptyDict /\ f.id = <<>> /\ f.classes = <<>>
    /\ f.formatter = "None" /\ f.fence_end = <<>>

\* C26: between two lines of a run, a scanner with no fence marker bound (at
\* the start of the run, after a close, an abort, a rejected opener, a line
\* that is no opener) holds the canonical empty values in its captured
\* lines, blank-line counter, quote depth, language, options, attributes, id,
\* class list, formatter and closing matcher; the same holds of the raw
\* preprocessor
IdleIsCanonical ==
    /\ (phase = "scan" /\ fenced.fence = <<>>) => Canonical(fenced)
    /\ (phase = "scan" /\ profile = "raw" /\ rawp.f.fence = <<>>) => Canonical(rawp.f)

\* a bracketed opener with classes and an id went through the validators and
\* was rejected
IdleIsCanonicalWitness ==
    /\ phase = "scan" /\ fenced.fence = <<>> /\ event = "reject"
    /\ LastClasses /= <<>> /\ LastIds /= <<>>
    /\ vcall /= <<>>

\* the call of parse_hl_lines made, and the words of an argument of one entry
HlCall == hl[1]
HlParts == Split(HlCall.hl_lines, "-")
HlSingle == hl /= <<>> /\ HlCall.hl_lines \in HlNumbers \cup HlRanges

\* C27: line_count is the number of captured lines of the block closed;
\* normalize_hl_line maps numbers below 1 to 0 and numbers above line_count
\* to line_count + 1; every line returned by parse_hl_lines lies in
\* 0..line_count + 1; a range adds at most line_count + 2 lines; a range
\* whose start exceeds its end adds nothing; a single number is kept exactly
\* when it lies in 1..line_count
HlLinesClamped ==
    /\ event = "close" => fcall[1].line_count = Len(pre.f.code)
    /\ hl /= <<>> =>
          /\ \A n \in HlNumbers :
                normalize_hl_line(n, HlCall.line_count) =
                   IF ParseInt(n) < 1 THEN 0
                   ELSE IF ParseInt(n) > HlCall.line_count THEN HlCall.line_count + 1
                   ELSE ParseInt(n)
          /\ \A i \in 1..Len(HlCall.out) : HlCall.out[i] \in 0..(HlCall.line_count + 1)
    /\ (HlSingle /\ Len(HlParts) = 2) =>
          /\ Len(HlCall.out) <= HlCall.line_count + 2
          /\ ParseInt(HlParts[1]) > ParseInt(HlParts[2]) => HlCall.out = <<>>
    /\ (HlSingle /\ Len(HlParts) = 1) =>
          HlCall.out = IF ParseInt(HlParts[1]) \in 1..HlCall.line_count
                       THEN <<ParseInt(HlParts[1])>> ELSE <<>>

\* the line at index i matches the opener grammar
OpenerAt(i) ==
    MatchFenceStart(RStrip(lines[i + 1], {"\r"}),
                    parse_whitespace(RStrip(lines[i + 1], {"\r"})).ws_len).ok

\* C28: a line read inside a fence is never tested against the opener
\* grammar (no validator is called on it and no fence opens on it), also
\* when it disqualifies the fence: the abort leaves the scanner unbound and
\* goes on to the next line.  So for every abort of the pass, of the fence
\* opened at line s by the line c, no block and no fence in progress starts
\* on a line from s to c: the earliest opener after the abort is line c + 1.
AbortConsumesLine ==
    /\ InFenceStep => (event \notin {"open", "reject", "pass", "vhard"} /\ vcall = <<>>)
    /\ event \in AbortEvents =>
          /\ pre.f.fence /= <<>>
          /\ fenced = clear(pre.f)
          /\ count = Len(lines)
          /\ phase = "scan"
          /\ <<start, count - 1>> \in aborted
    /\ phase = "scan" =>
          \A a \in aborted :
             /\ a[1] < a[2]
             /\ fenced.fence /= <<>> => start > a[2]
             /\ \A n \in 1..Len(fenced.stack) :
                   fenced.stack[n].start > a[2] \/ fenced.stack[n].end <= a[1]

\* a fence was aborted by a line that matches the opener grammar, and the
\* next line opened a fence
AbortConsumesLineWitness ==
    /\ phase = "scan" /\ event = "open"
    /\ \E a \in aborted : OpenerAt(a[2]) /\ start = a[2] + 1

====
